---- MODULE Spec2Model ----
(***************************************************************************)
(* The data synchronisation subsystem of jidhr: the paginated fetchers,    *)
(* the donation aggregator and the three sync orchestrators                *)
(* (DonationSync, EventSync, NewsletterSync) with the two API clients they *)
(* call (CSuiteClient: the source, HubSpotClient: the destination).        *)
(*                                                                         *)
(* Encodings.  Python values are kept within one TLA+ type per field:      *)
(*   profile_id            : integers, 0 is None / a missing key (falsy)   *)
(*   event_date_id, event_id : integers, 0 is None, MissingKey a key the   *)
(*                           record does not have                          *)
(*   dates                 : integers ordered as the ISO strings are;      *)
(*                           EmptyDate is "", NoneDate is None             *)
(*   donation_amount       : <<"num", v>> parses to v (thousandths of a    *)
(*                           currency unit), <<"bad">> does not parse      *)
(*   e-mail                : <<>> is "" / None, <<name, upper, padded>> a  *)
(*                           string with upper-case letters / surrounding  *)
(*                           blanks                                        *)
(*   profile_emails        : a function (only looked up, never iterated)   *)
(*   dict                  : [keys |-> insertion order, val |-> function]  *)
(***************************************************************************)
EXTENDS Integers, Sequences, FiniteSets, TLC

VARIABLES
    credentials,     \* which of the two clients has its credentials configured
    csProfiles,      \* source: the profile list of CSuite
    csDonations,     \* source: the donation list of CSuite
    csEvents,        \* source: the event-date list of CSuite
    today,           \* the day datetime.now() falls on
    hsContacts,      \* destination: e-mails of the contacts HubSpot holds
    hsProps,         \* destination: contact e-mail -> properties patched last
    hsEvents,        \* destination: the marketing events, in creation order
    hsSubscribed,    \* destination: e-mails subscribed to the newsletter
    job,             \* the operation the caller invoked
    dry_run, quick,  \* its arguments
    skip_archived, future_only,   \* EventSync.sync's further arguments
    pc,              \* where the operation stands
    limit,           \* the running fetcher's limit argument (0: None)
    offset,          \* the running fetcher's offset
    total_fetched,   \* total_fetched / profiles_checked
    profile_emails,  \* get_profile_emails: profile_id -> email
    all_donations,   \* get_donations_with_limit: the records gathered
    opted_in,        \* get_opted_in_profiles: the profiles gathered
    aggregates,      \* aggregate_donations' result
    events,          \* EventSync.sync: the fetched events
    idx,             \* position of the record loop
    results,         \* the tally
    requests,        \* history: page requests of this run, in order
    calls,           \* history: destination calls of this run, in order
    runs,            \* history: how many runs have finished
    prev_run,        \* history: the run that finished last
    syncs            \* the EventSync.sync calls that run side by side, each with its locals

vars == << credentials, csProfiles, csDonations, csEvents, today, hsContacts, hsProps,
           hsEvents, hsSubscribed, job, dry_run, quick, skip_archived,
           future_only, pc, limit, offset,
           total_fetched, profile_emails, all_donations, opted_in,
           aggregates, events, idx, results, requests, calls, runs,
           prev_run, syncs >>

---------------------------------------------------------------------------
(* Bounds of the model *)

MaxAggDonations == 3

\* the fetchers on their own: the source holds 0..MaxRecords records, the
\* limit is None or a multiple of LimitStep up to MaxLimitSteps * LimitStep
MaxRecords == 250
LimitStep == 10
MaxLimitSteps == 25

\* the fetchers with a fair caller: the source holds up to MaxFairPages
\* pages, or one record more
MaxFairPages == 2

\* the orchestrators, one run: each source list holds up to MaxSyncRecords
\* records
MaxSyncRecords == 2

\* EventSync run again and again: the source holds up to MaxRunEvents
\* events, a behaviour is up to MaxRuns runs, the clock stops at day MaxDay
MaxRunEvents == 2
MaxRuns == 2
MaxDay == 3

\* EventSync over a large source: the source holds up to MaxSourceEvents
\* events
MaxSourceEvents == 120

\* two EventSync runs side by side: the source holds up to
\* MaxConcurrentEvents events
MaxConcurrentEvents == 1

\* DonationSync and NewsletterSync over a large source: the source holds up
\* to MaxPagedRecords profiles and as many donations
MaxPagedRecords == 110

---------------------------------------------------------------------------
(* Python helpers *)

NoneDate == -1
EmptyDate == 0

EmptyDict == [keys |-> << >>, val |-> << >>]

\* Config holds the keys of both clients
AllConfigured == [csuite |-> TRUE, hubspot |-> TRUE]

DictHas(d, k) == k \in DOMAIN d.val

\* d[k] = v: a new key goes to the end of the insertion order
DictSet(d, k, v) ==
    [keys |-> IF DictHas(d, k) THEN d.keys ELSE Append(d.keys, k),
     val  |-> [x \in (DOMAIN d.val) \cup {k} |-> IF x = k THEN v ELSE d.val[x]]]

Min(a, b) == IF a <= b THEN a ELSE b

\* seq[:n]
Prefix(seq, n) == SubSeq(seq, 1, Min(n, Len(seq)))

---------------------------------------------------------------------------
(* DonationSync.aggregate_donations *)

\* float(amount_str), 0.0 on ValueError / TypeError
ParseAmount(amount_str) ==
    IF amount_str[1] = "num" THEN amount_str[2] ELSE 0

\* a variant that takes a missing date for a date like any other
DateKeyOfMissingIsADate(date) == IF date = NoneDate \/ date = EmptyDate THEN 1 ELSE date

\* the sort key: x['date'] or ''
DateKey(date) == IF date = NoneDate THEN EmptyDate ELSE date

DefaultAgg ==
    [total |-> 0, count |-> 0, last_date |-> NoneDate, last_amount |-> 0,
     donations |-> << >>]

\* a variant that counts only the donations whose amount is not zero
AddDonationCountsNonZero(agg, amount, date) ==
    [agg EXCEPT !.total = @ + amount,
                !.count = IF amount = 0 THEN @ ELSE @ + 1,
                !.donations = Append(@, [amount |-> amount, date |-> date])]

\* agg['total'] += amount; agg['count'] += 1; agg['donations'].append(...)
AddDonation(agg, amount, date) ==
    [agg EXCEPT !.total = @ + amount,
                !.count = @ + 1,
                !.donations = Append(@, [amount |-> amount, date |-> date])]

\* the first loop, one pass over the donations, seen profile by profile: the
\* entry of a profile_id takes the donations that carry it, in input order
RECURSIVE AccumulateProfile(_, _)
AccumulateProfile(agg, donations) ==
    IF donations = << >> THEN agg
    ELSE LET donation == Head(donations)
         IN  AccumulateProfile(AddDonation(agg,
                                           ParseAmount(donation.donation_amount),
                                           donation.donation_date),
                               Tail(donations))

\* the first loop: donations without profile_id are passed over, and a
\* profile_id enters the dict (defaultdict) when its first donation is met
AccumulateDonations(aggs, donations) ==
    LET positions == [i \in 1..Len(donations) |-> i]
        IsNewKey(i) ==
            /\ donations[i].profile_id # 0
            /\ ~DictHas(aggs, donations[i].profile_id)
            /\ \A j \in 1..(i - 1) :
                   donations[j].profile_id # donations[i].profile_id
        firsts   == SelectSeq(positions, IsNewKey)
        new_keys == [k \in 1..Len(firsts) |-> donations[firsts[k]].profile_id]
        ids      == { donations[i].profile_id : i \in 1..Len(donations) } \ {0}
        Of(p)    == SelectSeq(donations, LAMBDA d : d.profile_id = p)
    IN  [keys |-> aggs.keys \o new_keys,
         val  |-> [p \in ids \cup DOMAIN aggs.val |->
                      AccumulateProfile(IF DictHas(aggs, p)
                                        THEN aggs.val[p] ELSE DefaultAgg,
                                        IF p \in ids THEN Of(p) ELSE << >>)]]

\* a variant that sorts ascending (reverse=True left out)
RECURSIVE InsertAsc(_, _)
InsertAsc(sorted, x) ==
    IF sorted = << >> THEN << x >>
    ELSE IF DateKey(Head(sorted).date) <= DateKey(x.date)
         THEN << Head(sorted) >> \o InsertAsc(Tail(sorted), x)
         ELSE << x >> \o sorted

\* where a stable descending sort puts x among the already sorted ones:
\* behind every entry whose key is not smaller
RECURSIVE InsertDesc(_, _)
InsertDesc(sorted, x) ==
    IF sorted = << >> THEN << x >>
    ELSE IF DateKey(Head(sorted).date) >= DateKey(x.date)
         THEN << Head(sorted) >> \o InsertDesc(Tail(sorted), x)
         ELSE << x >> \o sorted

\* sorted(donations, key=lambda x: x['date'] or '', reverse=True): stable,
\* entries of equal key keep their input order
RECURSIVE SortedByDateDesc(_)
SortedByDateDesc(donations) ==
    IF donations = << >> THEN << >>
    ELSE InsertDesc(SortedByDateDesc(SubSeq(donations, 1, Len(donations) - 1)),
                    donations[Len(donations)])

\* the second loop's body: last donation, then del agg['donations']
FinishAgg(agg) ==
    LET sorted_donations == SortedByDateDesc(agg.donations)
    IN  [total       |-> agg.total,
         count       |-> agg.count,
         last_date   |-> IF agg.donations # << >>
                         THEN sorted_donations[1].date ELSE agg.last_date,
         last_amount |-> IF agg.donations # << >>
                         THEN sorted_donations[1].amount ELSE agg.last_amount]

aggregate_donations(donations) ==
    LET aggs == AccumulateDonations(EmptyDict, donations)
    IN  [keys |-> aggs.keys,
         val  |-> [p \in DOMAIN aggs.val |-> FinishAgg(aggs.val[p])]]

---------------------------------------------------------------------------
(* CSuiteClient: the source *)

BatchSize == 100
SampleLimit == 500

\* what a request can come to: success with data, an error answer
\* (success != 1), a RequestException, a non-JSON body, success without data
CSuiteOutcomes == {"ok", "api_error", "transport", "nonjson", "nodata"}

\* _request without api_key or api_secret sends nothing and returns
\* {"error": "CSuite API credentials not configured"}
CSuiteAnswers ==
    IF credentials.csuite THEN CSuiteOutcomes ELSE {"unconfigured"}

\* the server's answer to view_limit / view_offset
PageOf(list, view_limit, view_offset) ==
    SubSeq(list, view_offset + 1, Min(view_offset + view_limit, Len(list)))

\* CSuiteClient._request as its callers read it: result.get("success"),
\* result.get("data", {}) (None when the answer carries no data, has_data
\* FALSE) and data.get("results", [])
csuite_request(list, view_limit, view_offset, outcome) ==
    [success  |-> outcome \in {"ok", "nodata"},
     has_data |-> outcome = "ok",
     results  |-> IF outcome = "ok"
                  THEN PageOf(list, view_limit, view_offset) ELSE << >>]

get_profiles(view_limit, view_offset, outcome) ==
    csuite_request(csProfiles, view_limit, view_offset, outcome)

get_donations(view_limit, view_offset, outcome) ==
    csuite_request(csDonations, view_limit, view_offset, outcome)

\* get_event_dates(limit) sends no offset
get_event_dates(view_limit, outcome) ==
    csuite_request(csEvents, view_limit, 0, outcome)

---------------------------------------------------------------------------
(* The paginated fetchers: one loop iteration each.  ctl is how the        *)
(* iteration ends: "continue" (offset += batch_size), "break", or "raise"  *)
(* (data is None and data.get raises AttributeError)                       *)

\* email.lower().strip()
NormalizeEmail(email) == << email[1], FALSE, FALSE >>

\* the for loop of get_profile_emails over the profiles of one page from
\* position i on: profile_emails[profile_id] = email.lower().strip() for
\* every profile that has both, so an id ends up with the e-mail of the
\* last profile of the page that carries it
StoreEmails(emails, profiles, i) ==
    LET stored == { k \in i..Len(profiles) :
                      /\ profiles[k].profile_id # 0
                      /\ profiles[k].primary_email # << >> }
        last(p) == CHOOSE k \in stored :
                       /\ profiles[k].profile_id = p
                       /\ \A j \in stored :
                              profiles[j].profile_id = p => j <= k
        ids    == { profiles[k].profile_id : k \in stored }
    IN  [p \in ids \cup DOMAIN emails |->
            IF p \in ids
            THEN NormalizeEmail(profiles[last(p)].primary_email)
            ELSE emails[p]]

ProfileEmailsStep(emails, fetched, lim, result) ==
    IF ~result.success
    THEN [ctl |-> "break", profile_emails |-> emails, total_fetched |-> fetched]
    ELSE IF ~result.has_data
    THEN [ctl |-> "raise", profile_emails |-> emails, total_fetched |-> fetched]
    ELSE IF result.results = << >>
    THEN [ctl |-> "break", profile_emails |-> emails, total_fetched |-> fetched]
    ELSE LET profiles == result.results
             total    == fetched + Len(profiles)
         IN  [ctl |-> IF lim # 0 /\ total >= lim THEN "break"
                      ELSE IF Len(profiles) < BatchSize THEN "break"
                      ELSE "continue",
              profile_emails |-> StoreEmails(emails, profiles, 1),
              total_fetched  |-> total]

\* DonationsStep with a slip: a short page does not end the loop
DonationsStepNoShortBreak(gathered, lim, result) ==
    IF ~result.success
    THEN [ctl |-> "break", all_donations |-> gathered]
    ELSE IF ~result.has_data
    THEN [ctl |-> "raise", all_donations |-> gathered]
    ELSE IF result.results = << >>
    THEN [ctl |-> "break", all_donations |-> gathered]
    ELSE LET extended == gathered \o result.results
         IN  IF lim # 0 /\ Len(extended) >= lim
             THEN [ctl |-> "break", all_donations |-> Prefix(extended, lim)]
             ELSE [ctl |-> "continue", all_donations |-> extended]

\* DonationsStep with a slip: the result is not cut to the limit
DonationsStepNoTruncate(gathered, lim, result) ==
    IF ~result.success
    THEN [ctl |-> "break", all_donations |-> gathered]
    ELSE IF ~result.has_data
    THEN [ctl |-> "raise", all_donations |-> gathered]
    ELSE IF result.results = << >>
    THEN [ctl |-> "break", all_donations |-> gathered]
    ELSE LET donations == result.results
             extended  == gathered \o donations
         IN  IF lim # 0 /\ Len(extended) >= lim
             THEN [ctl |-> "break", all_donations |-> extended]
             ELSE IF Len(donations) < BatchSize
             THEN [ctl |-> "break", all_donations |-> extended]
             ELSE [ctl |-> "continue", all_donations |-> extended]

\* DonationsStep with a slip: a failed page gives up what was gathered
DonationsStepFailDrops(gathered, lim, result) ==
    IF ~result.success
    THEN [ctl |-> "break", all_donations |-> << >>]
    ELSE IF ~result.has_data
    THEN [ctl |-> "raise", all_donations |-> gathered]
    ELSE IF result.results = << >>
    THEN [ctl |-> "break", all_donations |-> gathered]
    ELSE LET donations == result.results
             extended  == gathered \o donations
         IN  IF lim # 0 /\ Len(extended) >= lim
             THEN [ctl |-> "break", all_donations |-> Prefix(extended, lim)]
             ELSE IF Len(donations) < BatchSize
             THEN [ctl |-> "break", all_donations |-> extended]
             ELSE [ctl |-> "continue", all_donations |-> extended]

DonationsStep(gathered, lim, result) ==
    IF ~result.success
    THEN [ctl |-> "break", all_donations |-> gathered]
    ELSE IF ~result.has_data
    THEN [ctl |-> "raise", all_donations |-> gathered]
    ELSE IF result.results = << >>
    THEN [ctl |-> "break", all_donations |-> gathered]
    ELSE LET donations == result.results
             extended  == gathered \o donations
         IN  IF lim # 0 /\ Len(extended) >= lim
             THEN [ctl |-> "break", all_donations |-> Prefix(extended, lim)]
             ELSE IF Len(donations) < BatchSize
             THEN [ctl |-> "break", all_donations |-> extended]
             ELSE [ctl |-> "continue", all_donations |-> extended]

\* a variant of the test that leaves the newsletter flag out
IsOptedInIgnoresNewsletter(profile) == profile.primary_email # << >>

\* the test of get_opted_in_profiles: email and newsletter == 1
IsOptedIn(profile) ==
    profile.primary_email # << >> /\ profile.newsletter = 1

OptedInEntry(profile) ==
    [profile_id |-> profile.profile_id,
     email      |-> NormalizeEmail(profile.primary_email)]

\* the for loop of get_opted_in_profiles over one page
OptedInOf(profiles) ==
    LET chosen == SelectSeq(profiles, IsOptedIn)
    IN  [i \in 1..Len(chosen) |-> OptedInEntry(chosen[i])]

OptedInStep(gathered, checked, lim, result) ==
    IF ~result.success
    THEN [ctl |-> "break", opted_in |-> gathered, total_fetched |-> checked]
    ELSE IF ~result.has_data
    THEN [ctl |-> "raise", opted_in |-> gathered, total_fetched |-> checked]
    ELSE IF result.results = << >>
    THEN [ctl |-> "break", opted_in |-> gathered, total_fetched |-> checked]
    ELSE LET profiles == result.results
             total    == checked + Len(profiles)
         IN  [ctl |-> IF lim # 0 /\ total >= lim THEN "break"
                      ELSE IF Len(profiles) < BatchSize THEN "break"
                      ELSE "continue",
              opted_in      |-> gathered \o OptedInOf(profiles),
              total_fetched |-> total]

---------------------------------------------------------------------------
(* HubSpotClient: the destination.  _get, _post and _patch hand back the   *)
(* body of the answer whatever its HTTP status, and {"error": text} when   *)
(* the request raises.  A call ends "ok" (the destination did what was     *)
(* asked), "rejected" (the destination refused; the body of its answer has *)
(* no "error" key), "error" ({"error": text}) or "error_nf" (an "error"    *)
(* whose text holds "not found")                                           *)

HubSpotOutcomes == {"ok", "rejected", "error", "error_nf"}

\* _get, _post and _patch without access_token send nothing and return
\* {"error": "HubSpot access token not configured"}
HubSpotAnswers ==
    IF credentials.hubspot THEN HubSpotOutcomes ELSE {"unconfigured"}

\* "error" in result
HasErrorKey(outcome) == outcome \in {"error", "error_nf", "unconfigured"}

\* the calls whose caller reads the text of the error: the search and the
\* patch of update_contact_by_email (DonationSync.sync) and the subscribe
\* call (NewsletterSync.sync)
TextIsRead == {"search_contact_by_email", "update_contact", "subscribe_contact"}

\* what the history keeps of a destination call: whether the destination
\* did what was asked, whether the caller got an "error" result, and, where
\* the caller reads the text of the error, whether it holds "not found"
Call(op, key, outcome) ==
    [op |-> op, key |-> key, ok |-> outcome = "ok",
     error |-> HasErrorKey(outcome),
     nf_text |-> outcome = "error_nf" /\ op \in TextIsRead]

WriteOps == {"update_contact", "create_marketing_event", "subscribe_contact"}

\* POST crm/v3/objects/contacts/search, filter email EQ, limit 1
search_contact_by_email(email, outcome) ==
    [has_error |-> HasErrorKey(outcome),
     nf_text   |-> outcome = "error_nf",
     results   |-> IF outcome = "ok" /\ email \in hsContacts
                   THEN << email >> ELSE << >>]

\* update_contact_by_email: the result the caller reads, the calls issued and
\* the contact patched (<< >>: none)
update_contact_by_email(email, properties, search_outcome, patch_outcome) ==
    LET search_result == search_contact_by_email(email, search_outcome)
        searched      == << Call("search_contact_by_email", email, search_outcome) >>
    IN  IF search_result.has_error
        THEN [has_error |-> TRUE, nf_text |-> search_result.nf_text,
              issued |-> searched, patched |-> << >>]
        ELSE IF search_result.results = << >>
        THEN [has_error |-> TRUE, nf_text |-> TRUE,
              issued |-> searched, patched |-> << >>]
        ELSE [has_error |-> HasErrorKey(patch_outcome),
              nf_text   |-> patch_outcome = "error_nf",
              issued    |-> Append(searched,
                                   Call("update_contact", email, patch_outcome)),
              patched   |-> IF patch_outcome = "ok"
                            THEN << search_result.results[1] >> ELSE << >>]

\* the destination applies a patch: only the named properties change
ApplyPatch(props, patched, properties) ==
    IF patched = << >> THEN props
    ELSE (patched[1] :> (IF patched[1] \in DOMAIN props
                         THEN properties @@ props[patched[1]]
                         ELSE properties)) @@ props

\* a variant that looks at the oldest event of the destination only
SearchOldestEventOnly(external_id, outcome) ==
    [has_error |-> HasErrorKey(outcome),
     eventName |-> IF outcome = "ok" /\ hsEvents # << >>
                      /\ hsEvents[1].externalEventId = external_id
                   THEN hsEvents[1].eventName
                   ELSE ""]

\* GET marketing-events/external/{id}: the event, when the call succeeds and
\* the destination holds one
search_marketing_event_by_external_id(external_id, outcome) ==
    [has_error |-> HasErrorKey(outcome),
     eventName |-> IF outcome = "ok"
                      /\ \E i \in 1..Len(hsEvents) :
                             hsEvents[i].externalEventId = external_id
                   THEN (CHOOSE n \in { hsEvents[i].eventName : i \in
                            { j \in 1..Len(hsEvents) :
                                hsEvents[j].externalEventId = external_id } } : TRUE)
                   ELSE ""]

\* a variant that reads the subscription state off a failed query too
StatusOfFailedQueryCounts(email, outcome) ==
    [has_error  |-> FALSE,
     subscribed |-> email \in hsSubscribed]

\* GET communication-preferences/v3/status/email/{email}: whether the answer
\* lists the configured subscription id as SUBSCRIBED
get_subscription_status(email, outcome) ==
    [has_error  |-> HasErrorKey(outcome),
     subscribed |-> outcome = "ok" /\ email \in hsSubscribed]

---------------------------------------------------------------------------
(* The tallies *)

DonationResults ==
    [updated |-> 0, skipped_no_email |-> 0, skipped_not_found |-> 0,
     errors |-> 0, details |-> << >>]

EventResults ==
    [created |-> 0, skipped_exists |-> 0, skipped_archived |-> 0,
     skipped_past |-> 0, errors |-> 0, details |-> << >>]

NewsletterResults ==
    [subscribed |-> 0, already_subscribed |-> 0, not_found |-> 0,
     errors |-> 0, details |-> << >>]

AddDetail(res, text) == [res EXCEPT !.details = Append(@, text)]

\* profile_limit / donation_limit: 500 if (dry_run or quick) else None
SyncLimit(dry, q) == IF dry \/ q THEN SampleLimit ELSE 0

---------------------------------------------------------------------------
(* How an operation goes on once a fetcher's loop has ended.  Each of      *)
(* these sets pc, offset, limit, results, aggregates and idx.              *)

Return ==
    /\ pc' = "done"
    /\ UNCHANGED << offset, limit, results, aggregates, idx >>

\* an exception leaves the operation: nothing catches it before the caller
Raise ==
    /\ pc' = "raised"
    /\ UNCHANGED << offset, limit, results, aggregates, idx >>

ReturnWithDetail(text) ==
    /\ pc' = "done"
    /\ results' = AddDetail(results, text)
    /\ UNCHANGED << offset, limit, aggregates, idx >>

\* a variant that asks for the same page again
NextPageSameOffset ==
    /\ pc' = pc
    /\ offset' = offset
    /\ UNCHANGED << limit, results, aggregates, idx >>

NextPage ==
    /\ pc' = pc
    /\ offset' = offset + BatchSize
    /\ UNCHANGED << limit, results, aggregates, idx >>

\* DonationSync.sync, step 1 to step 2
AfterGetProfileEmails(emails) ==
    IF job # "DonationSync" THEN Return
    ELSE IF DOMAIN emails = {}
    THEN ReturnWithDetail("No profiles with emails found in CSuite")
    ELSE /\ pc' = "get_donations_with_limit"
         /\ offset' = 0
         /\ limit' = SyncLimit(dry_run, quick)
         /\ UNCHANGED << results, aggregates, idx >>

\* DonationSync.sync, step 2 to step 4
AfterGetDonations(donations) ==
    IF job # "DonationSync" THEN Return
    ELSE IF donations = << >>
    THEN ReturnWithDetail("No donations found in CSuite")
    ELSE LET aggs == aggregate_donations(donations)
         IN  /\ aggregates' = aggs
             /\ idx' = 1
             /\ pc' = IF aggs.keys = << >> THEN "done" ELSE "update_contacts"
             /\ UNCHANGED << offset, limit, results >>

\* NewsletterSync.sync, step 1 to step 2
AfterGetOptedIn(profiles) ==
    IF job # "NewsletterSync" THEN Return
    ELSE IF profiles = << >>
    THEN ReturnWithDetail("No profiles with newsletter opt-in found")
    ELSE /\ pc' = "subscribe_contacts"
         /\ idx' = 1
         /\ UNCHANGED << offset, limit, results, aggregates >>

\* what the history keeps of a page request: the offset sent, whether the
\* answer reported success and whether it carried data
PageRequest(endpoint, view_offset, result) ==
    [endpoint |-> endpoint, view_offset |-> view_offset,
     success |-> result.success, has_data |-> result.has_data]

---------------------------------------------------------------------------
(* The fetchers' actions: one page request each *)

GetProfileEmailsPage ==
    /\ pc = "get_profile_emails"
    /\ \E outcome \in CSuiteAnswers :
          LET result == get_profiles(BatchSize, offset, outcome)
              step   == ProfileEmailsStep(profile_emails, total_fetched,
                                          limit, result)
          IN  /\ requests' = Append(requests,
                                    PageRequest("profile/list", offset, result))
              /\ profile_emails' = step.profile_emails
              /\ total_fetched' = step.total_fetched
              /\ IF step.ctl = "continue" THEN NextPage
                 ELSE IF step.ctl = "raise" THEN Raise
                 ELSE AfterGetProfileEmails(step.profile_emails)
    /\ UNCHANGED << syncs, credentials, csProfiles, csDonations, csEvents,
                    today,
                    hsContacts,
                    hsProps, hsEvents, hsSubscribed, job, dry_run, quick,
                    skip_archived, future_only, all_donations, opted_in,
                    events, calls, runs, prev_run >>

GetDonationsPage ==
    /\ pc = "get_donations_with_limit"
    /\ \E outcome \in CSuiteAnswers :
          LET result == get_donations(BatchSize, offset, outcome)
              step   == DonationsStep(all_donations, limit, result)
          IN  /\ requests' = Append(requests,
                                    PageRequest("donation/list", offset, result))
              /\ all_donations' = step.all_donations
              /\ IF step.ctl = "continue" THEN NextPage
                 ELSE IF step.ctl = "raise" THEN Raise
                 ELSE AfterGetDonations(step.all_donations)
    /\ UNCHANGED << syncs, credentials, csProfiles, csDonations, csEvents,
                    today,
                    hsContacts,
                    hsProps, hsEvents, hsSubscribed, job, dry_run, quick,
                    skip_archived, future_only, total_fetched, profile_emails,
                    opted_in, events, calls, runs, prev_run >>

GetOptedInPage ==
    /\ pc = "get_opted_in_profiles"
    /\ \E outcome \in CSuiteAnswers :
          LET result == get_profiles(BatchSize, offset, outcome)
              step   == OptedInStep(opted_in, total_fetched, limit, result)
          IN  /\ requests' = Append(requests,
                                    PageRequest("profile/list", offset, result))
              /\ opted_in' = step.opted_in
              /\ total_fetched' = step.total_fetched
              /\ IF step.ctl = "continue" THEN NextPage
                 ELSE IF step.ctl = "raise" THEN Raise
                 ELSE AfterGetOptedIn(step.opted_in)
    /\ UNCHANGED << syncs, credentials, csProfiles, csDonations, csEvents,
                    today,
                    hsContacts,
                    hsProps, hsEvents, hsSubscribed, job, dry_run, quick,
                    skip_archived, future_only, profile_emails, all_donations,
                    events, calls, runs, prev_run >>

---------------------------------------------------------------------------
(* DonationSync.sync, step 4: one iteration of the loop over the aggregates *)

\* round(x, 2) of an amount in thousandths: to the nearest hundredth, a tie
\* to the even one
Round2(v) ==
    LET q == v \div 10
        r == v % 10
    IN  10 * (IF r > 5 \/ (r = 5 /\ q % 2 = 1) THEN q + 1 ELSE q)

\* format_date_for_hubspot: None (<< >>) for a missing date, else midnight
\* UTC of that day
format_date_for_hubspot(date_str) ==
    IF date_str = NoneDate \/ date_str = EmptyDate THEN << >>
    ELSE << date_str, "T00:00:00.000Z" >>

BuildProperties(profile_id, agg) ==
    LET formatted_date == format_date_for_hubspot(agg.last_date)
        properties ==
            [lifetime_giving      |-> Round2(agg.total),
             donation_count       |-> agg.count,
             last_donation_amount |-> Round2(agg.last_amount),
             csuite_profile_id    |-> profile_id]
    IN  IF formatted_date # << >>
        THEN [last_donation_date |-> formatted_date[1]] @@ properties
        ELSE properties

\* a variant that counts a contact that was not found as an error besides
TallyUpdateNotFoundTwice(res, update_result) ==
    IF update_result.has_error
    THEN IF update_result.nf_text
         THEN [res EXCEPT !.skipped_not_found = @ + 1, !.errors = @ + 1]
         ELSE [res EXCEPT !.errors = @ + 1]
    ELSE [res EXCEPT !.updated = @ + 1]

\* the tally of one update_contact_by_email result
TallyUpdate(res, update_result) ==
    IF update_result.has_error
    THEN IF update_result.nf_text
         THEN [res EXCEPT !.skipped_not_found = @ + 1]
         ELSE [res EXCEPT !.errors = @ + 1]
    ELSE [res EXCEPT !.updated = @ + 1]

\* a variant that leaves the loop one record early
LoopPcSkipsLast(i, n) == IF i + 1 >= n THEN "done" ELSE pc

\* where the record loop stands after the iteration at position i of n
LoopPc(i, n) == IF i >= n THEN "done" ELSE pc

UpdateContact ==
    /\ pc = "update_contacts"
    /\ LET profile_id == aggregates.keys[idx]
           agg        == aggregates.val[profile_id]
           email      == IF profile_id \in DOMAIN profile_emails
                         THEN profile_emails[profile_id] ELSE << >>
           properties == BuildProperties(profile_id, agg)
       IN  IF email = << >>
           THEN /\ results' = [results EXCEPT !.skipped_no_email = @ + 1]
                /\ UNCHANGED << hsProps, calls >>
           ELSE IF dry_run
           THEN /\ results' = [results EXCEPT !.updated = @ + 1]
                /\ UNCHANGED << hsProps, calls >>
           ELSE \E search_outcome \in HubSpotAnswers,
                   patch_outcome \in HubSpotAnswers :
                   LET update_result ==
                           update_contact_by_email(email, properties,
                                                   search_outcome, patch_outcome)
                   IN  /\ calls' = calls \o update_result.issued
                       /\ hsProps' = ApplyPatch(hsProps, update_result.patched,
                                                properties)
                       /\ results' = TallyUpdate(results, update_result)
    /\ idx' = idx + 1
    /\ pc' = LoopPc(idx, Len(aggregates.keys))
    /\ UNCHANGED << syncs, credentials, csProfiles, csDonations, csEvents,
                    today,
                    hsContacts,
                    hsEvents, hsSubscribed, job, dry_run, quick, skip_archived,
                    future_only, limit, offset, total_fetched, profile_emails,
                    all_donations, opted_in, aggregates, events, requests,
                    runs, prev_run >>

---------------------------------------------------------------------------
(* NewsletterSync.sync, step 2: one iteration of the loop over opted_in *)

\* the tally of one subscribe_contact result: "not found" / "does not
\* exist" in the error text, any other error, success
TallySubscribe(res, outcome) ==
    IF outcome = "error_nf" THEN [res EXCEPT !.not_found = @ + 1]
    ELSE IF HasErrorKey(outcome) THEN [res EXCEPT !.errors = @ + 1]
    ELSE [res EXCEPT !.subscribed = @ + 1]

\* a variant without the dry-run branch
SubscribeContactIgnoresDryRun ==
    /\ pc = "subscribe_contacts"
    /\ LET email == opted_in[idx].email
       IN  \E status_outcome \in HubSpotAnswers,
              subscribe_outcome \in HubSpotAnswers :
              LET status_result ==
                      get_subscription_status(email, status_outcome)
                  asked == Append(calls, Call("get_subscription_status",
                                              email, status_outcome))
              IN  IF ~status_result.has_error /\ status_result.subscribed
                  THEN /\ results' =
                             [results EXCEPT !.already_subscribed = @ + 1]
                       /\ calls' = asked
                       /\ UNCHANGED hsSubscribed
                  ELSE /\ calls' = Append(asked,
                                          Call("subscribe_contact", email,
                                               subscribe_outcome))
                       /\ hsSubscribed' = IF subscribe_outcome = "ok"
                                          THEN hsSubscribed \cup {email}
                                          ELSE hsSubscribed
                       /\ results' = TallySubscribe(results,
                                                    subscribe_outcome)
    /\ idx' = idx + 1
    /\ pc' = IF idx >= Len(opted_in) THEN "done" ELSE pc
    /\ UNCHANGED << syncs, credentials, csProfiles, csDonations, csEvents,
                    today,
                    hsContacts,
                    hsProps, hsEvents, job, dry_run, quick, skip_archived,
                    future_only, limit, offset, total_fetched, profile_emails,
                    all_donations, opted_in, aggregates, events, requests,
                    runs, prev_run >>

SubscribeContact ==
    /\ pc = "subscribe_contacts"
    /\ LET email == opted_in[idx].email
       IN  IF dry_run
           THEN /\ results' = [results EXCEPT !.subscribed = @ + 1]
                /\ UNCHANGED << hsSubscribed, calls >>
           ELSE \E status_outcome \in HubSpotAnswers,
                   subscribe_outcome \in HubSpotAnswers :
                   LET status_result ==
                           get_subscription_status(email, status_outcome)
                       asked == Append(calls, Call("get_subscription_status",
                                                   email, status_outcome))
                   IN  IF ~status_result.has_error /\ status_result.subscribed
                       THEN /\ results' =
                                  [results EXCEPT !.already_subscribed = @ + 1]
                            /\ calls' = asked
                            /\ UNCHANGED hsSubscribed
                       ELSE /\ calls' = Append(asked,
                                               Call("subscribe_contact", email,
                                                    subscribe_outcome))
                            /\ hsSubscribed' = IF subscribe_outcome = "ok"
                                               THEN hsSubscribed \cup {email}
                                               ELSE hsSubscribed
                            /\ results' = TallySubscribe(results,
                                                         subscribe_outcome)
    /\ idx' = idx + 1
    /\ pc' = LoopPc(idx, Len(opted_in))
    /\ UNCHANGED << syncs, credentials, csProfiles, csDonations, csEvents,
                    today,
                    hsContacts,
                    hsProps, hsEvents, job, dry_run, quick, skip_archived,
                    future_only, limit, offset, total_fetched, profile_emails,
                    all_donations, opted_in, aggregates, events, requests,
                    runs, prev_run >>

---------------------------------------------------------------------------
(* EventSync *)

MissingKey == -1
UnknownId == -2

\* event_description or event_name or "Unnamed Event"
EventName(csuite_event) ==
    IF csuite_event.event_description # "" THEN csuite_event.event_description
    ELSE IF csuite_event.event_name # "" THEN csuite_event.event_name
    ELSE "Unnamed Event"

\* f"csuite-{event.get('event_date_id', event.get('event_id', 'unknown'))}":
\* the default of dict.get counts only when the key is missing
ExternalId(csuite_event) ==
    IF csuite_event.event_date_id # MissingKey
    THEN << "csuite", csuite_event.event_date_id >>
    ELSE IF csuite_event.event_id # MissingKey
    THEN << "csuite", csuite_event.event_id >>
    ELSE << "csuite", UnknownId >>

\* the fields of the destination event that the sync goes by (the times, the
\* type and the location are carried along and never read back)
build_hubspot_event(csuite_event) ==
    [eventName       |-> EventName(csuite_event),
     externalEventId |-> ExternalId(csuite_event)]

\* a variant that trusts the lookup only when the run is a dry run
EventExistsInDryRunOnly(external_id, outcome) ==
    LET result == search_marketing_event_by_external_id(external_id, outcome)
    IN  dry_run /\ ~result.has_error /\ result.eventName # ""

\* a variant that looks the event up in earnest in a live run only
EventExistsInLiveRunOnly(external_id, outcome) ==
    LET result == search_marketing_event_by_external_id(external_id, outcome)
    IN  ~dry_run /\ ~result.has_error /\ result.eventName # ""

\* "error" not in result and result.get("eventName"); False on an exception
event_exists(external_id, outcome) ==
    LET result == search_marketing_event_by_external_id(external_id, outcome)
    IN  ~result.has_error /\ result.eventName # ""

\* step 1: csuite.get_event_dates(limit=100), a single request
GetEvents ==
    /\ pc = "get_event_dates"
    /\ \E outcome \in CSuiteAnswers :
          LET csuite_result == get_event_dates(BatchSize, outcome)
          IN  /\ requests' = Append(requests,
                                    PageRequest("event/list/dates", 0,
                                                csuite_result))
              /\ IF ~csuite_result.success
                 THEN /\ results' = AddDetail(
                                        [results EXCEPT !.errors = @ + 1],
                                        "CSuite error")
                      /\ pc' = "done"
                      /\ UNCHANGED << events, idx >>
                 ELSE IF ~csuite_result.has_data
                 THEN /\ pc' = "raised"
                      /\ UNCHANGED << events, idx, results >>
                 ELSE IF csuite_result.results = << >>
                 THEN /\ results' = AddDetail(results,
                                              "No events found in CSuite")
                      /\ pc' = "done"
                      /\ UNCHANGED << events, idx >>
                 ELSE /\ events' = csuite_result.results
                      /\ idx' = 1
                      /\ pc' = "process_events"
                      /\ UNCHANGED results
    /\ UNCHANGED << syncs, credentials, csProfiles, csDonations, csEvents,
                    today,
                    hsContacts,
                    hsProps, hsEvents, hsSubscribed, job, dry_run, quick,
                    skip_archived, future_only, limit, offset, total_fetched,
                    profile_emails, all_donations, opted_in, aggregates,
                    calls, runs, prev_run >>

\* step 2: one iteration of the loop over the events
ProcessEvent ==
    /\ pc = "process_events"
    /\ LET event         == events[idx]
           event_date    == event.event_date
           hubspot_event == build_hubspot_event(event)
           external_id   == hubspot_event.externalEventId
       IN  IF skip_archived /\ event.archived
           THEN /\ results' = [results EXCEPT !.skipped_archived = @ + 1]
                /\ UNCHANGED << hsEvents, calls >>
           ELSE IF future_only /\ DateKey(event_date) # EmptyDate
                               /\ event_date < today
           THEN /\ results' = [results EXCEPT !.skipped_past = @ + 1]
                /\ UNCHANGED << hsEvents, calls >>
           ELSE \E lookup_outcome \in HubSpotAnswers,
                   create_outcome \in HubSpotAnswers :
                   LET looked == Append(calls,
                           Call("search_marketing_event_by_external_id",
                                external_id, lookup_outcome))
                   IN  IF event_exists(external_id, lookup_outcome)
                       THEN /\ results' =
                                  [results EXCEPT !.skipped_exists = @ + 1]
                            /\ calls' = looked
                            /\ UNCHANGED hsEvents
                       ELSE IF dry_run
                       THEN /\ results' = AddDetail(
                                      [results EXCEPT !.created = @ + 1],
                                      "Would create")
                            /\ calls' = looked
                            /\ UNCHANGED hsEvents
                       ELSE /\ calls' = Append(looked,
                                      Call("create_marketing_event",
                                           external_id, create_outcome))
                            /\ results' =
                                  IF HasErrorKey(create_outcome)
                                  THEN AddDetail(
                                          [results EXCEPT !.errors = @ + 1],
                                          "Error creating")
                                  ELSE AddDetail(
                                          [results EXCEPT !.created = @ + 1],
                                          "Created")
                            /\ hsEvents' = IF create_outcome = "ok"
                                           THEN Append(hsEvents, hubspot_event)
                                           ELSE hsEvents
    /\ idx' = idx + 1
    /\ pc' = LoopPc(idx, Len(events))
    /\ UNCHANGED << syncs, credentials, csProfiles, csDonations, csEvents,
                    today,
                    hsContacts,
                    hsProps, hsSubscribed, job, dry_run, quick, skip_archived,
                    future_only, limit, offset, total_fetched, profile_emails,
                    all_donations, opted_in, aggregates, events, requests,
                    runs, prev_run >>

---------------------------------------------------------------------------
(* The aggregator on its own: any donation list up to MaxAggDonations *)

AggProfileIds == {0, 1, 2}
AggAmounts == { <<"num", 1000>>, <<"num", 2505>>, <<"bad">> }
AggDates == {NoneDate, EmptyDate, 1, 2}

AggDonationRecords ==
    [profile_id : AggProfileIds, donation_amount : AggAmounts,
     donation_date : AggDates]

NoResults == [details |-> << >>]

\* no run has finished yet
NoRun ==
    [job |-> "none", dry_run |-> FALSE, today |-> 0, outcome |-> "none",
     all_ok |-> TRUE, lookups_ok |-> TRUE]

InitAgg ==
    /\ credentials = AllConfigured
    /\ syncs = << >>
    /\ csProfiles = << >> /\ csDonations = << >> /\ csEvents = << >>
    /\ today = 0
    /\ hsContacts = {} /\ hsProps = << >> /\ hsEvents = << >>
    /\ hsSubscribed = {}
    /\ job = "aggregate_donations"
    /\ dry_run = FALSE /\ quick = FALSE
    /\ skip_archived = TRUE /\ future_only = TRUE
    /\ pc = "aggregate_donations"
    /\ limit = 0 /\ offset = 0 /\ total_fetched = 0
    /\ profile_emails = << >>
    /\ \E n \in 0..MaxAggDonations :
           all_donations \in [1..n -> AggDonationRecords]
    /\ opted_in = << >>
    /\ aggregates = EmptyDict
    /\ events = << >>
    /\ idx = 0
    /\ results = NoResults
    /\ requests = << >> /\ calls = << >> /\ runs = 0
    /\ prev_run = NoRun

Aggregate ==
    /\ job = "aggregate_donations"
    /\ pc = "aggregate_donations"
    /\ aggregates' = aggregate_donations(all_donations)
    /\ pc' = "done"
    /\ UNCHANGED << syncs, credentials, csProfiles, csDonations, csEvents,
                    today,
                    hsContacts,
                    hsProps, hsEvents, hsSubscribed, job, dry_run, quick,
                    skip_archived, future_only,
                    limit, offset, total_fetched, profile_emails,
                    all_donations, opted_in, events, idx, results, requests,
                    calls, runs, prev_run >>

NextAgg == Aggregate

SpecAgg == InitAgg /\ [][NextAgg]_vars

---------------------------------------------------------------------------
(* The fetchers on their own: a source of n records, told apart by their   *)
(* position, and any limit                                                 *)

Fetchers ==
    {"get_donations_with_limit", "get_profile_emails", "get_opted_in_profiles"}

FetchDonation(i) ==
    [donation_id |-> i, profile_id |-> i % 3,
     donation_amount |-> IF i % 5 = 0 THEN <<"bad">> ELSE <<"num", 1000 * i>>,
     donation_date |-> (i % 4) - 1]

FetchProfile(i) ==
    [profile_id |-> i,
     primary_email |-> IF i % 3 = 0 THEN << >> ELSE << i, i % 2 = 0, i % 5 = 0 >>,
     newsletter |-> i % 2]

InitFetch ==
    /\ credentials = AllConfigured
    /\ syncs = << >>
    /\ job \in Fetchers
    /\ pc = job
    /\ \E n \in 0..MaxRecords :
          /\ csProfiles = IF job = "get_donations_with_limit" THEN << >>
                          ELSE [i \in 1..n |-> FetchProfile(i)]
          /\ csDonations = IF job = "get_donations_with_limit"
                           THEN [i \in 1..n |-> FetchDonation(i)] ELSE << >>
    /\ limit \in { LimitStep * k : k \in 0..MaxLimitSteps }
    /\ csEvents = << >> /\ today = 0
    /\ hsContacts = {} /\ hsProps = << >> /\ hsEvents = << >>
    /\ hsSubscribed = {}
    /\ dry_run = FALSE /\ quick = FALSE
    /\ skip_archived = TRUE /\ future_only = TRUE
    /\ offset = 0 /\ total_fetched = 0
    /\ profile_emails = << >> /\ all_donations = << >> /\ opted_in = << >>
    /\ aggregates = EmptyDict /\ events = << >> /\ idx = 0
    /\ results = NoResults
    /\ requests = << >> /\ calls = << >> /\ runs = 0
    /\ prev_run = NoRun

NextFetch == GetProfileEmailsPage \/ GetDonationsPage \/ GetOptedInPage

SpecFetch == InitFetch /\ [][NextFetch]_vars

\* the fetchers with a caller that goes on (SpecFetchFair): a loop whose
\* request was answered takes its next step; the source holds a whole
\* number of pages, up to MaxFairPages, or one record more, and the limit
\* is None or a number of half pages
InitFetchFair ==
    /\ credentials = AllConfigured
    /\ syncs = << >>
    /\ job \in Fetchers
    /\ pc = job
    /\ \E pages \in 0..MaxFairPages, more \in {0, 1} :
          LET n == pages * BatchSize + more
          IN  /\ csProfiles = IF job = "get_donations_with_limit" THEN << >>
                              ELSE [i \in 1..n |-> FetchProfile(i)]
              /\ csDonations = IF job = "get_donations_with_limit"
                               THEN [i \in 1..n |-> FetchDonation(i)]
                               ELSE << >>
    /\ limit \in { (BatchSize \div 2) * k : k \in 0..(2 * MaxFairPages + 1) }
    /\ csEvents = << >> /\ today = 0
    /\ hsContacts = {} /\ hsProps = << >> /\ hsEvents = << >>
    /\ hsSubscribed = {}
    /\ dry_run = FALSE /\ quick = FALSE
    /\ skip_archived = TRUE /\ future_only = TRUE
    /\ offset = 0 /\ total_fetched = 0
    /\ profile_emails = << >> /\ all_donations = << >> /\ opted_in = << >>
    /\ aggregates = EmptyDict /\ events = << >> /\ idx = 0
    /\ results = NoResults
    /\ requests = << >> /\ calls = << >> /\ runs = 0
    /\ prev_run = NoRun

SpecFetchFair == InitFetchFair /\ [][NextFetch]_vars /\ WF_vars(NextFetch)

---------------------------------------------------------------------------
(* The orchestrators (Spec): one run of a sync over any small source and  *)
(* destination                                                             *)

SyncJobs == {"DonationSync", "EventSync", "NewsletterSync"}

Email1 == << 1, FALSE, FALSE >>
Email2 == << 2, FALSE, FALSE >>

SyncProfiles ==
    { [profile_id |-> 1, primary_email |-> << 1, TRUE, TRUE >>, newsletter |-> 1],
      [profile_id |-> 1, primary_email |-> << >>, newsletter |-> 1],
      [profile_id |-> 2, primary_email |-> Email2, newsletter |-> 0],
      [profile_id |-> 2, primary_email |-> Email2, newsletter |-> 1] }

\* DonationSync does not read the newsletter flag
SyncDonors == { p \in SyncProfiles : p.newsletter = 1 }

SyncDonations ==
    { [profile_id |-> 0, donation_amount |-> <<"num", 2505>>, donation_date |-> 1],
      [profile_id |-> 1, donation_amount |-> <<"num", 2505>>, donation_date |-> 2],
      [profile_id |-> 1, donation_amount |-> <<"bad">>, donation_date |-> EmptyDate],
      [profile_id |-> 2, donation_amount |-> <<"num", 1000>>, donation_date |-> 1] }

SyncEvents ==
    { [event_date_id |-> 1, event_id |-> 7, archived |-> FALSE,
       event_date |-> 3, event_description |-> "Gala", event_name |-> "Event - Other"],
      [event_date_id |-> 2, event_id |-> 7, archived |-> FALSE,
       event_date |-> 2, event_description |-> "", event_name |-> "Event - Other"],
      [event_date_id |-> 3, event_id |-> 7, archived |-> TRUE,
       event_date |-> 3, event_description |-> "Closed", event_name |-> "Event - Other"],
      [event_date_id |-> MissingKey, event_id |-> 1, archived |-> FALSE,
       event_date |-> EmptyDate, event_description |-> "Gala", event_name |-> ""],
      [event_date_id |-> MissingKey, event_id |-> MissingKey, archived |-> FALSE,
       event_date |-> 1, event_description |-> "", event_name |-> ""],
      [event_date_id |-> 0, event_id |-> 7, archived |-> FALSE,
       event_date |-> 3, event_description |-> "Iftar", event_name |-> "Event - Other"] }

\* an event an earlier sync created
ExistingEvent == [eventName |-> "Gala", externalEventId |-> << "csuite", 1 >>]

FirstStep(j) ==
    CASE j = "DonationSync"   -> "get_profile_emails"
      [] j = "EventSync"      -> "get_event_dates"
      [] j = "NewsletterSync" -> "get_opted_in_profiles"

FreshResults(j) ==
    CASE j = "DonationSync"   -> DonationResults
      [] j = "EventSync"      -> EventResults
      [] j = "NewsletterSync" -> NewsletterResults

\* the state at the entry of sync(): nothing fetched, an all-zero tally
EnterSync(j, dry, q) ==
    /\ pc = FirstStep(j)
    /\ limit = (IF j = "EventSync" THEN 0 ELSE SyncLimit(dry, q))
    /\ offset = 0 /\ total_fetched = 0
    /\ profile_emails = << >> /\ all_donations = << >> /\ opted_in = << >>
    /\ aggregates = EmptyDict /\ events = << >> /\ idx = 0
    /\ results = FreshResults(j)
    /\ requests = << >> /\ calls = << >>

InitSync ==
    /\ credentials \in [csuite : BOOLEAN, hubspot : BOOLEAN]
    /\ syncs = << >>
    /\ job \in SyncJobs
    /\ dry_run \in BOOLEAN
    /\ quick \in (IF job = "EventSync" THEN {FALSE} ELSE BOOLEAN)
    /\ skip_archived \in (IF job = "EventSync" THEN BOOLEAN ELSE {TRUE})
    /\ future_only \in (IF job = "EventSync" THEN BOOLEAN ELSE {TRUE})
    /\ today = 2
    /\ \E n \in 0..MaxSyncRecords :
          csProfiles \in (IF job = "EventSync" THEN { << >> }
                          ELSE IF job = "DonationSync" THEN [1..n -> SyncDonors]
                          ELSE [1..n -> SyncProfiles])
    /\ \E n \in 0..MaxSyncRecords :
          csDonations \in (IF job = "DonationSync"
                           THEN [1..n -> SyncDonations] ELSE { << >> })
    /\ \E n \in 0..MaxSyncRecords :
          csEvents \in (IF job = "EventSync"
                        THEN [1..n -> SyncEvents] ELSE { << >> })
    /\ hsContacts \in (IF job = "DonationSync"
                       THEN { {Email1}, {Email1, Email2} } ELSE { {} })
    /\ hsProps = << >>
    /\ hsEvents \in (IF job = "EventSync"
                     THEN { << >>, << ExistingEvent >> } ELSE { << >> })
    /\ hsSubscribed \in (IF job = "NewsletterSync"
                         THEN { {}, {Email1} } ELSE { {} })
    /\ EnterSync(job, dry_run, quick)
    /\ runs = 0
    /\ prev_run = NoRun

Next ==
    \/ GetProfileEmailsPage
    \/ GetDonationsPage
    \/ GetOptedInPage
    \/ UpdateContact
    \/ SubscribeContact
    \/ GetEvents
    \/ ProcessEvent

Spec == InitSync /\ [][Next]_vars

---------------------------------------------------------------------------
(* run_event_sync called again and again over an unchanged source          *)
(* (SpecRuns): a run is followed by further runs, dry or live, the same    *)
(* day or the next, against the destination the earlier runs left          *)

RunEvents ==
    { [event_date_id |-> 1, event_id |-> 7, archived |-> FALSE,
       event_date |-> 2, event_description |-> "Gala", event_name |-> "Event - Other"],
      [event_date_id |-> 2, event_id |-> 7, archived |-> FALSE,
       event_date |-> 3, event_description |-> "Iftar", event_name |-> "Event - Other"],
      [event_date_id |-> MissingKey, event_id |-> 1, archived |-> FALSE,
       event_date |-> EmptyDate, event_description |-> "", event_name |-> ""] }

\* run_event_sync(dry_run): skip_archived and future_only keep their defaults
InitRuns ==
    /\ credentials = AllConfigured
    /\ syncs = << >>
    /\ job = "EventSync"
    /\ dry_run \in BOOLEAN
    /\ quick = FALSE
    /\ skip_archived = TRUE
    /\ future_only = TRUE
    /\ today = 2
    /\ csProfiles = << >> /\ csDonations = << >>
    /\ \E n \in 0..MaxRunEvents : csEvents \in [1..n -> RunEvents]
    /\ hsContacts = {} /\ hsProps = << >> /\ hsEvents = << >>
    /\ hsSubscribed = {}
    /\ EnterSync(job, dry_run, quick)
    /\ runs = 0
    /\ prev_run = NoRun

\* what the history keeps of a finished run: its arguments, its day, how it
\* ended, whether every call it made succeeded, and whether every existence
\* lookup of this and the earlier runs succeeded
RunSummary ==
    [job        |-> job,
     dry_run    |-> dry_run,
     today      |-> today,
     outcome    |-> pc,
     all_ok     |-> /\ \A i \in 1..Len(requests) :
                          requests[i].success /\ requests[i].has_data
                    /\ \A i \in 1..Len(calls) : calls[i].ok,
     lookups_ok |-> /\ prev_run.lookups_ok
                    /\ \A i \in 1..Len(calls) :
                          calls[i].op = "search_marketing_event_by_external_id"
                              => calls[i].ok]

\* the caller invokes EventSync.sync again, the same day or the next
NewRun ==
    /\ job = "EventSync"
    /\ pc \in {"done", "raised"}
    /\ runs + 1 < MaxRuns
    /\ runs' = runs + 1
    /\ prev_run' = RunSummary
    /\ \E dry \in BOOLEAN, day \in {today, Min(today + 1, MaxDay)} :
          /\ dry_run' = dry
          /\ today' = day
          /\ pc' = FirstStep(job)
    /\ limit' = 0 /\ offset' = 0 /\ total_fetched' = 0
    /\ profile_emails' = << >> /\ all_donations' = << >> /\ opted_in' = << >>
    /\ aggregates' = EmptyDict /\ events' = << >> /\ idx' = 0
    /\ results' = FreshResults(job)
    /\ requests' = << >> /\ calls' = << >>
    /\ UNCHANGED << syncs, credentials, csProfiles, csDonations, csEvents,
                    hsContacts, hsProps,
                    hsEvents, hsSubscribed, job, quick, skip_archived,
                    future_only >>

NextRuns ==
    \/ GetEvents
    \/ ProcessEvent
    \/ NewRun

SpecRuns == InitRuns /\ [][NextRuns]_vars

---------------------------------------------------------------------------
(* EventSync over a source of many events (SpecEventPages): n events told  *)
(* apart by their position; the 1st, 101st, ... are dated after today, the *)
(* even ones are archived, the others are past                             *)

FetchEvent(i) ==
    [event_date_id |-> i, event_id |-> 7, archived |-> i % 2 = 0,
     event_date |-> IF i % 100 = 1 THEN 3 ELSE 1,
     event_description |-> "", event_name |-> "Event - Other"]

InitEventPages ==
    /\ credentials = AllConfigured
    /\ syncs = << >>
    /\ job = "EventSync"
    /\ dry_run \in BOOLEAN
    /\ quick = FALSE
    /\ skip_archived = TRUE
    /\ future_only = TRUE
    /\ today = 2
    /\ csProfiles = << >> /\ csDonations = << >>
    /\ \E n \in 0..MaxSourceEvents : csEvents = [i \in 1..n |-> FetchEvent(i)]
    /\ hsContacts = {} /\ hsProps = << >> /\ hsEvents = << >>
    /\ hsSubscribed = {}
    /\ EnterSync(job, dry_run, quick)
    /\ runs = 0
    /\ prev_run = NoRun

NextEventPages == GetEvents \/ ProcessEvent

SpecEventPages == InitEventPages /\ [][NextEventPages]_vars

---------------------------------------------------------------------------
(* A live DonationSync or NewsletterSync run over a source of more than    *)
(* one page (SpecSyncPages): n profiles and, for DonationSync, n donations *)
(* told apart by their position; the 1st, 101st, ... profile has an e-mail *)
(* and the newsletter flag, the others have neither; the 1st, 101st, ...   *)
(* donation is profile 1's, the 2nd, 102nd, ... is profile 101's, every    *)
(* other one is that of the profile at its own position                    *)

PagedProfile(i) ==
    [profile_id |-> i,
     primary_email |-> IF i % 100 = 1 THEN << i, FALSE, FALSE >> ELSE << >>,
     newsletter |-> IF i % 100 = 1 THEN 1 ELSE 0]

PagedDonation(i) ==
    [profile_id |-> IF i % 100 = 1 THEN 1
                    ELSE IF i % 100 = 2 THEN 101 ELSE i,
     donation_amount |-> <<"num", 1000>>,
     donation_date |-> 1]

InitSyncPages ==
    /\ credentials = AllConfigured
    /\ syncs = << >>
    /\ job \in {"DonationSync", "NewsletterSync"}
    /\ dry_run = FALSE
    /\ quick = FALSE
    /\ skip_archived = TRUE
    /\ future_only = TRUE
    /\ today = 2
    /\ \E n \in 0..MaxPagedRecords :
          /\ csProfiles = [i \in 1..n |-> PagedProfile(i)]
          /\ csDonations = IF job = "DonationSync"
                           THEN [i \in 1..n |-> PagedDonation(i)]
                           ELSE << >>
    /\ csEvents = << >>
    /\ hsContacts = IF job = "DonationSync"
                    THEN { << 1, FALSE, FALSE >>, << 101, FALSE, FALSE >> }
                    ELSE {}
    /\ hsProps = << >> /\ hsEvents = << >>
    /\ hsSubscribed = {}
    /\ EnterSync(job, dry_run, quick)
    /\ runs = 0
    /\ prev_run = NoRun

NextSyncPages ==
    \/ GetProfileEmailsPage
    \/ GetDonationsPage
    \/ GetOptedInPage
    \/ UpdateContact
    \/ SubscribeContact

SpecSyncPages == InitSyncPages /\ [][NextSyncPages]_vars

---------------------------------------------------------------------------
(* Assistant._handle_sync_commands (SpecChat): a chat command runs one of  *)
(* the syncs and formats the tally it returns; an exception of the run or  *)
(* of the formatting ends in the "... sync failed" reply                   *)

\* the keys the _format_*_sync_results functions subscript the tally with
\* (results.get('details') of the event formatter raises no KeyError)
FormatKeys(j) ==
    CASE j = "DonationSync"   ->
             {"updated", "skipped_no_email", "skipped_not_found", "errors"}
      [] j = "EventSync"      ->
             {"created", "skipped_exists", "skipped_past", "skipped_archived",
              "errors"}
      [] j = "NewsletterSync" ->
             {"subscribed", "already_subscribed", "skipped_not_found", "errors"}

\* 'sync donations' / 'sync events' / 'sync newsletter', with or without
\* 'dry run': run_donation_sync(dry_run, quick=dry_run),
\* run_event_sync(dry_run), run_newsletter_sync(dry_run, quick=dry_run)
InitChat ==
    /\ credentials = AllConfigured
    /\ syncs = << >>
    /\ job \in SyncJobs
    /\ dry_run \in BOOLEAN
    /\ quick = (job # "EventSync" /\ dry_run)
    /\ skip_archived = TRUE
    /\ future_only = TRUE
    /\ today = 2
    /\ \E n \in 0..MaxSyncRecords :
          csProfiles \in (IF job = "EventSync" THEN { << >> }
                          ELSE IF job = "DonationSync" THEN [1..n -> SyncDonors]
                          ELSE [1..n -> SyncProfiles])
    /\ \E n \in 0..MaxSyncRecords :
          csDonations \in (IF job = "DonationSync"
                           THEN [1..n -> SyncDonations] ELSE { << >> })
    /\ \E n \in 0..MaxSyncRecords :
          csEvents \in (IF job = "EventSync"
                        THEN [1..n -> SyncEvents] ELSE { << >> })
    /\ hsContacts \in (IF job = "DonationSync"
                       THEN { {Email1}, {Email1, Email2} } ELSE { {} })
    /\ hsProps = << >>
    /\ hsEvents \in (IF job = "EventSync"
                     THEN { << >>, << ExistingEvent >> } ELSE { << >> })
    /\ hsSubscribed \in (IF job = "NewsletterSync"
                         THEN { {}, {Email1} } ELSE { {} })
    /\ EnterSync(job, dry_run, quick)
    /\ runs = 0
    /\ prev_run = NoRun

\* the try block after run_*_sync: the formatted tally is the reply unless
\* the run raised or the formatter raises KeyError on a key the tally lacks
FormatSyncResults ==
    /\ job \in SyncJobs
    /\ pc \in {"done", "raised"}
    /\ pc' = IF pc = "done" /\ FormatKeys(job) \subseteq DOMAIN results
             THEN "replied" ELSE "sync_failed"
    /\ UNCHANGED << syncs, credentials, csProfiles, csDonations, csEvents,
                    today,
                    hsContacts, hsProps, hsEvents, hsSubscribed, job,
                    dry_run, quick, skip_archived, future_only, limit,
                    offset, total_fetched, profile_emails, all_donations,
                    opted_in, aggregates, events, idx, results, requests,
                    calls, runs, prev_run >>

NextChat ==
    \/ GetProfileEmailsPage
    \/ GetDonationsPage
    \/ GetOptedInPage
    \/ UpdateContact
    \/ SubscribeContact
    \/ GetEvents
    \/ ProcessEvent
    \/ FormatSyncResults

SpecChat == InitChat /\ [][NextChat]_vars

---------------------------------------------------------------------------
(* Two EventSync.sync calls side by side (SpecConcurrent), as two chat     *)
(* requests or two processes give them: live runs with the default flags   *)
(* over the same source and the same destination.  Each call has its own   *)
(* locals (syncs[s]); a step of a call is one request of its own, so the   *)
(* existence check and the create call of an event are two steps and the   *)
(* other call's steps can fall between them                                *)

SyncIds == {1, 2}

\* the locals of a call at the entry of sync()
EnteredSync ==
    [pc |-> "get_event_dates", events |-> << >>, idx |-> 0,
     results |-> EventResults]

InitConcurrent ==
    /\ credentials = AllConfigured
    /\ job = "EventSync"
    /\ dry_run = FALSE
    /\ quick = FALSE
    /\ skip_archived = TRUE
    /\ future_only = TRUE
    /\ today = 2
    /\ csProfiles = << >> /\ csDonations = << >>
    /\ \E n \in 0..MaxConcurrentEvents : csEvents \in [1..n -> SyncEvents]
    /\ hsContacts = {} /\ hsProps = << >> /\ hsEvents = << >>
    /\ hsSubscribed = {}
    /\ pc = "concurrent"
    /\ limit = 0 /\ offset = 0 /\ total_fetched = 0
    /\ profile_emails = << >> /\ all_donations = << >> /\ opted_in = << >>
    /\ aggregates = EmptyDict /\ events = << >> /\ idx = 0
    /\ results = NoResults
    /\ requests = << >> /\ calls = << >>
    /\ runs = 0
    /\ prev_run = NoRun
    /\ syncs = [s \in SyncIds |-> EnteredSync]

\* the variables no step of a concurrent call changes
ConcurrentFrame ==
    UNCHANGED << credentials, csProfiles, csDonations, csEvents, today,
                 hsContacts, hsProps, hsSubscribed, job, dry_run, quick,
                 skip_archived, future_only, pc, limit, offset,
                 total_fetched, profile_emails, all_donations, opted_in,
                 aggregates, events, idx, results, runs, prev_run >>

\* step 1 of call s: csuite.get_event_dates(limit=100)
ConcurrentGetEvents(s) ==
    /\ syncs[s].pc = "get_event_dates"
    /\ \E outcome \in CSuiteAnswers :
          LET csuite_result == get_event_dates(BatchSize, outcome)
              mine          == syncs[s]
          IN  /\ requests' = Append(requests,
                                    PageRequest("event/list/dates", 0,
                                                csuite_result))
              /\ syncs' = [syncs EXCEPT ![s] =
                     IF ~csuite_result.success
                     THEN [mine EXCEPT
                              !.results = AddDetail(
                                  [mine.results EXCEPT !.errors = @ + 1],
                                  "CSuite error"),
                              !.pc = "done"]
                     ELSE IF ~csuite_result.has_data
                     THEN [mine EXCEPT !.pc = "raised"]
                     ELSE IF csuite_result.results = << >>
                     THEN [mine EXCEPT
                              !.results = AddDetail(mine.results,
                                              "No events found in CSuite"),
                              !.pc = "done"]
                     ELSE [mine EXCEPT !.events = csuite_result.results,
                                       !.idx = 1,
                                       !.pc = "process_events"]]
    /\ UNCHANGED << hsEvents, calls >>
    /\ ConcurrentFrame

\* where the loop of a call stands after the iteration at position i of n
ConcurrentLoopPc(i, n) == IF i >= n THEN "done" ELSE "process_events"

\* step 2 of call s, an iteration up to the existence check: the event is
\* passed over (archived, past, found at the destination) or is to be created
ConcurrentCheckEvent(s) ==
    /\ syncs[s].pc = "process_events"
    /\ LET mine          == syncs[s]
           event         == mine.events[mine.idx]
           event_date    == event.event_date
           external_id   == build_hubspot_event(event).externalEventId
           next_event    == [mine EXCEPT
                                !.idx = @ + 1,
                                !.pc = ConcurrentLoopPc(mine.idx,
                                                        Len(mine.events))]
       IN  IF skip_archived /\ event.archived
           THEN /\ syncs' = [syncs EXCEPT ![s] =
                       [next_event EXCEPT !.results.skipped_archived = @ + 1]]
                /\ UNCHANGED calls
           ELSE IF future_only /\ DateKey(event_date) # EmptyDate
                               /\ event_date < today
           THEN /\ syncs' = [syncs EXCEPT ![s] =
                       [next_event EXCEPT !.results.skipped_past = @ + 1]]
                /\ UNCHANGED calls
           ELSE \E lookup_outcome \in HubSpotAnswers :
                   /\ calls' = Append(calls,
                           Call("search_marketing_event_by_external_id",
                                external_id, lookup_outcome))
                   /\ syncs' = [syncs EXCEPT ![s] =
                          IF event_exists(external_id, lookup_outcome)
                          THEN [next_event EXCEPT
                                   !.results.skipped_exists = @ + 1]
                          ELSE [mine EXCEPT !.pc = "create_event"]]
    /\ UNCHANGED << hsEvents, requests >>
    /\ ConcurrentFrame

\* step 2 of call s, the rest of the iteration: create_marketing_event
ConcurrentCreateEvent(s) ==
    /\ syncs[s].pc = "create_event"
    /\ LET mine          == syncs[s]
           hubspot_event == build_hubspot_event(mine.events[mine.idx])
           external_id   == hubspot_event.externalEventId
           next_event    == [mine EXCEPT
                                !.idx = @ + 1,
                                !.pc = ConcurrentLoopPc(mine.idx,
                                                        Len(mine.events))]
       IN  \E create_outcome \in HubSpotAnswers :
              /\ calls' = Append(calls, Call("create_marketing_event",
                                              external_id, create_outcome))
              /\ syncs' = [syncs EXCEPT ![s] =
                     [next_event EXCEPT !.results =
                         IF HasErrorKey(create_outcome)
                         THEN AddDetail([@ EXCEPT !.errors = @ + 1],
                                        "Error creating")
                         ELSE AddDetail([@ EXCEPT !.created = @ + 1],
                                        "Created")]]
              /\ hsEvents' = IF create_outcome = "ok"
                             THEN Append(hsEvents, hubspot_event)
                             ELSE hsEvents
    /\ UNCHANGED requests
    /\ ConcurrentFrame

NextConcurrent ==
    \E s \in SyncIds :
        \/ ConcurrentGetEvents(s)
        \/ ConcurrentCheckEvent(s)
        \/ ConcurrentCreateEvent(s)

SpecConcurrent == InitConcurrent /\ [][NextConcurrent]_vars

---------------------------------------------------------------------------
(* Claims about aggregate_donations (SpecAgg) *)

\* the positions of the input donations that carry profile_id p
DonationsOf(p) ==
    { i \in 1..Len(all_donations) : all_donations[i].profile_id = p }

\* the sum of the amounts at the positions in S, an unparseable amount as 0
RECURSIVE SumOfAmounts(_)
SumOfAmounts(S) ==
    IF S = {} THEN 0
    ELSE LET i == CHOOSE j \in S : TRUE
         IN  (IF all_donations[i].donation_amount[1] = "num"
              THEN all_donations[i].donation_amount[2] ELSE 0)
             + SumOfAmounts(S \ {i})

Aggregated == job = "aggregate_donations" /\ pc = "done"

\* C4: the result of aggregate_donations has exactly the profile_ids that
\* occur on a donation as its keys; for each key, total is the sum of that
\* profile's amounts (an unparseable amount counts 0) and count is the
\* number of that profile's donations; a donation without a profile_id
\* adds to no aggregate.
C4_AggregateTotals ==
    Aggregated =>
        /\ DOMAIN aggregates.val
               = { all_donations[i].profile_id : i \in 1..Len(all_donations) } \ {0}
        /\ { aggregates.keys[i] : i \in 1..Len(aggregates.keys) }
               = DOMAIN aggregates.val
        /\ \A p \in DOMAIN aggregates.val :
               /\ aggregates.val[p].total = SumOfAmounts(DonationsOf(p))
               /\ aggregates.val[p].count = Cardinality(DonationsOf(p))

\* an input of three donations: one without profile_id, two of one profile
\* of which one has an unparseable amount
C4_Witness ==
    /\ Aggregated
    /\ Len(all_donations) = 3
    /\ DonationsOf(0) # {}
    /\ \E p \in DOMAIN aggregates.val :
           /\ aggregates.val[p].count = 2
           /\ aggregates.val[p].total = 2505
           /\ \E i \in DonationsOf(p) : all_donations[i].donation_amount = <<"bad">>

\* a date as the sort compares it: None and the empty string are equal
DateAsString(date) == IF date = NoneDate THEN EmptyDate ELSE date

\* C5: for every profile of the result, last_date is the greatest
\* donation_date of that profile's donations (a missing date counts as the
\* empty string), and last_amount is the amount of one of that profile's
\* donations dated last_date.
C5_LastDonation ==
    Aggregated =>
        \A p \in DOMAIN aggregates.val :
            /\ \A i \in DonationsOf(p) :
                   DateAsString(all_donations[i].donation_date)
                       <= DateAsString(aggregates.val[p].last_date)
            /\ \E i \in DonationsOf(p) :
                   /\ all_donations[i].donation_date = aggregates.val[p].last_date
                   /\ SumOfAmounts({i}) = aggregates.val[p].last_amount

\* a profile whose later donation comes first in the input and differs in
\* amount from the earlier one
C5_Witness ==
    /\ Aggregated
    /\ \E p \in DOMAIN aggregates.val :
           \E i, j \in DonationsOf(p) :
               /\ i < j
               /\ all_donations[i].donation_date = 2
               /\ all_donations[j].donation_date = 1
               /\ SumOfAmounts({i}) = 1000
               /\ SumOfAmounts({j}) = 2505
               /\ aggregates.val[p].last_date = 2
               /\ aggregates.val[p].last_amount = 1000

\* the positions of profile p's donations that carry its greatest date
LatestDonationsOf(p) ==
    { i \in DonationsOf(p) :
        \A j \in DonationsOf(p) :
            DateAsString(all_donations[j].donation_date)
                <= DateAsString(all_donations[i].donation_date) }

\* the greatest position in S
LastPosition(S) == CHOOSE i \in S : \A j \in S : j <= i

\* C24: when several donations of a profile share the greatest date,
\* last_amount is the amount of the one that comes last in the input.
C24_LastAmountOfLastInInput ==
    Aggregated =>
        \A p \in DOMAIN aggregates.val :
            aggregates.val[p].last_amount
                = SumOfAmounts({LastPosition(LatestDonationsOf(p))})

\* a profile with two donations of the same, greatest date and different
\* amounts: last_amount is the amount of the one that comes first
C24_Witness ==
    /\ Aggregated
    /\ \E p \in DOMAIN aggregates.val :
           \E i, j \in LatestDonationsOf(p) :
               /\ i < j
               /\ \A k \in LatestDonationsOf(p) : i <= k
               /\ all_donations[i].donation_date = all_donations[j].donation_date
               /\ SumOfAmounts({i}) = 1000
               /\ SumOfAmounts({j}) = 2505
               /\ aggregates.val[p].last_amount = 1000

---------------------------------------------------------------------------
(* Claims about the paginated fetchers (SpecFetch) *)

\* every page request so far was answered with success and data
AllPagesOk ==
    \A i \in 1..Len(requests) : requests[i].success /\ requests[i].has_data

\* the last page request was answered with a failure
LastPageFailed ==
    requests # << >> /\ ~requests[Len(requests)].success

\* the source's profiles that lie on the first m positions and pass test
PositionsWhere(m, Test(_)) ==
    { i \in 1..Min(m, Len(csProfiles)) : Test(csProfiles[i]) }

HasEmail(profile) == profile.primary_email # << >>

HasEmailAndNewsletter(profile) ==
    profile.primary_email # << >> /\ profile.newsletter = 1

\* C8: a fetch of the donations without a limit whose pages all succeed
\* returns the source's n records in source order, after exactly n div 100
\* + 1 page requests, the i-th at offset 100 * (i - 1).
C8_FetchAllPages ==
    (job = "get_donations_with_limit" /\ limit = 0 /\ AllPagesOk)
    => /\ \A i \in 1..Len(requests) :
              requests[i].view_offset = 100 * (i - 1)
       /\ pc = "done" =>
              /\ all_donations = csDonations
              /\ Len(requests) = (Len(csDonations) \div 100) + 1

C8_Witness ==
    /\ job = "get_donations_with_limit" /\ limit = 0 /\ AllPagesOk
    /\ pc = "done"
    /\ Len(csDonations) = 250
    /\ Len(all_donations) = 250
    /\ Len(requests) = 3

\* C9: with a positive limit L and pages that all succeed, the fetch of the
\* donations returns exactly the first min(L, n) records of the source in
\* source order, and every page request is issued while fewer than L records
\* have been gathered.
C9_FetchWithLimit ==
    (job = "get_donations_with_limit" /\ limit > 0 /\ AllPagesOk)
    => /\ \A i \in 1..Len(requests) :
              /\ requests[i].view_offset < limit
              /\ requests[i].view_offset = 100 * (i - 1)
       /\ pc = "done" =>
              /\ Len(all_donations) = Min(limit, Len(csDonations))
              /\ \A i \in 1..Len(all_donations) :
                     all_donations[i] = csDonations[i]

C9_Witness ==
    /\ job = "get_donations_with_limit" /\ limit = 120 /\ AllPagesOk
    /\ pc = "done"
    /\ Len(csDonations) = 250
    /\ Len(all_donations) = 120
    /\ Len(requests) = 2

\* C10: when the k-th page request of a fetcher is answered with a failure,
\* the fetcher has returned (it has not raised), that request is its last
\* one, and its result is made of exactly the records of the first k - 1
\* pages, in source order: the donations themselves, the e-mail of every
\* profile that has one, the opted-in profiles.
C10_FailedPageStops ==
    /\ \A i \in 1..(Len(requests) - 1) : requests[i].success
    /\ LastPageFailed =>
          LET before == 100 * (Len(requests) - 1)
          IN  /\ pc = "done"
              /\ job = "get_donations_with_limit" =>
                     /\ Len(all_donations) = before
                     /\ \A i \in 1..before : all_donations[i] = csDonations[i]
              /\ job = "get_profile_emails" =>
                     /\ DOMAIN profile_emails = PositionsWhere(before, HasEmail)
                     /\ \A i \in DOMAIN profile_emails :
                            profile_emails[i]
                              = << csProfiles[i].primary_email[1], FALSE, FALSE >>
              /\ job = "get_opted_in_profiles" =>
                     /\ { opted_in[j].profile_id : j \in 1..Len(opted_in) }
                          = PositionsWhere(before, HasEmailAndNewsletter)
                     /\ \A j \in 1..(Len(opted_in) - 1) :
                            opted_in[j].profile_id < opted_in[j + 1].profile_id

C10_Witness ==
    /\ job = "get_donations_with_limit"
    /\ Len(requests) = 3 /\ LastPageFailed
    /\ pc = "done"
    /\ Len(all_donations) = 200
    /\ Len(csDonations) = 250

\* C12: get_opted_in_profiles selects a fetched profile if and only if its
\* primary_email is non-empty and its newsletter flag is 1 (so a profile with
\* newsletter=0 is left out whatever its e-mail, and one with newsletter=1
\* and no e-mail is left out); the selected profiles keep source order and
\* carry their e-mail lower-cased and stripped.
C12_OptedInFilter ==
    job = "get_opted_in_profiles" =>
        /\ total_fetched <= Len(csProfiles)
        /\ { opted_in[j].profile_id : j \in 1..Len(opted_in) }
               = PositionsWhere(total_fetched, HasEmailAndNewsletter)
        /\ \A j \in 1..(Len(opted_in) - 1) :
               opted_in[j].profile_id < opted_in[j + 1].profile_id
        /\ \A j \in 1..Len(opted_in) :
               opted_in[j].email
                   = << csProfiles[opted_in[j].profile_id].primary_email[1],
                        FALSE, FALSE >>

\* all 250 profiles of the source fetched without a limit: the 83 that have
\* an e-mail and newsletter=1 are selected; profile 2 (e-mail, newsletter=0)
\* and profile 3 (newsletter=1, no e-mail) are not
C12_Witness ==
    /\ job = "get_opted_in_profiles" /\ limit = 0 /\ pc = "done"
    /\ AllPagesOk
    /\ total_fetched = 250
    /\ Len(opted_in) = 83
    /\ opted_in[1].profile_id = 1
    /\ opted_in[2].profile_id = 5
    /\ csProfiles[2].primary_email # << >> /\ csProfiles[2].newsletter = 0
    /\ csProfiles[3].primary_email = << >> /\ csProfiles[3].newsletter = 1

\* the page requests a fetcher needs at most for a list of n records
MaxPageRequests(n) == n \div BatchSize + 1

FetchedList == IF job = "get_donations_with_limit" THEN csDonations ELSE csProfiles

\* C29: every fetcher ends after finitely many page requests, with or
\* without a limit and whatever each request is answered with: the k-th
\* request of a fetcher asks for offset (k - 1) * batch_size, and no fetcher
\* asks for more pages than the source has, plus one.
C29_FetchTerminates ==
    /\ <>(pc \in {"done", "raised"})
    /\ [](job \in Fetchers =>
             /\ \A k \in 1..Len(requests) :
                    requests[k].view_offset = (k - 1) * BatchSize
             /\ Len(requests) <= MaxPageRequests(Len(FetchedList)))

\* get_profile_emails without a limit over more than two pages of profiles:
\* three requests, at offsets 0, 100 and 200, and the fetcher has returned
C29_Witness ==
    /\ job = "get_profile_emails" /\ pc = "done" /\ limit = 0
    /\ Len(csProfiles) > 2 * BatchSize
    /\ Len(requests) = 3
    /\ requests[3].view_offset = 2 * BatchSize
    /\ requests[3].success

---------------------------------------------------------------------------
\* the profile_ids of the entries of the opted-in list
OptedInIds == { opted_in[i].profile_id : i \in 1..Len(opted_in) }

\* C30: with a positive limit L and pages that all succeed, the two profile
\* fetchers take into account exactly the first min(L, n) profiles of the
\* source: the returned e-mail mapping holds exactly those of them that have
\* an e-mail, the opted-in list exactly those of them that are opted in, and
\* no profile beyond position L contributes to either.
C30_ProfileLimitIsExact ==
    (limit > 0 /\ AllPagesOk /\ pc = "done")
    => /\ job = "get_profile_emails"
              => DOMAIN profile_emails = PositionsWhere(limit, HasEmail)
       /\ job = "get_opted_in_profiles"
              => OptedInIds = PositionsWhere(limit, HasEmailAndNewsletter)

\* limit 120 over 250 profiles: the second page is stored whole before the
\* limit is tested, and profile 121 is in the mapping
C30_Witness ==
    /\ job = "get_profile_emails" /\ limit = 120 /\ AllPagesOk
    /\ pc = "done"
    /\ Len(csProfiles) = 250
    /\ Len(requests) = 2
    /\ total_fetched = 200
    /\ 121 \in DOMAIN profile_emails
    /\ 200 \in DOMAIN profile_emails
    /\ 202 \notin DOMAIN profile_emails

(* Claims about the orchestrators (Spec) and about repeated EventSync runs *)
(* (SpecRuns)                                                              *)

\* the positions of the current run's destination calls that pass test
CallsWhere(Test(_)) == { i \in 1..Len(calls) : Test(calls[i]) }

IsWrite(call) == call.op \in WriteOps

IsFailedCall(call) == ~call.ok

IsAppliedWrite(call) == call.op \in WriteOps /\ call.ok

IsLookup(call) == call.op = "search_marketing_event_by_external_id"

IsCreate(call) == call.op = "create_marketing_event"

\* C1: in a run of DonationSync.sync, EventSync.sync or NewsletterSync.sync
\* with dry_run=True no destination write call is issued (no contact patch,
\* no event create, no subscribe), whatever the source holds and however
\* the read calls end.
C1_DryRunWritesNothing ==
    (job \in SyncJobs /\ dry_run) => CallsWhere(IsWrite) = {}

\* a dry run of NewsletterSync that has tallied two profiles as subscribed
C1_Witness ==
    /\ job = "NewsletterSync" /\ dry_run /\ pc = "done"
    /\ Len(opted_in) = 2
    /\ results.subscribed = 2
    /\ CallsWhere(IsWrite) = {}

\* the source events that a run neither skips as archived nor as past
Eligible ==
    { i \in 1..Len(csEvents) :
        /\ ~(skip_archived /\ csEvents[i].archived)
        /\ ~(future_only /\ DateAsString(csEvents[i].event_date) # EmptyDate
                         /\ csEvents[i].event_date < today) }

\* a live EventSync run has returned, and the run before it was a live run
\* over the same source on the same day
SecondLiveRun ==
    /\ job = "EventSync" /\ pc = "done" /\ ~dry_run
    /\ prev_run.job = "EventSync" /\ ~prev_run.dry_run
    /\ prev_run.today = today

ReportsAllExisting ==
    /\ results.created = 0
    /\ results.skipped_exists = Cardinality(Eligible)
    /\ CallsWhere(IsCreate) = {}

\* every call of the current run so far has succeeded
EveryCallSucceeded ==
    /\ \A i \in 1..Len(requests) : requests[i].success /\ requests[i].has_data
    /\ CallsWhere(IsFailedCall) = {}

NoDuplicateEvent ==
    \A i, j \in 1..Len(hsEvents) :
        hsEvents[i].externalEventId = hsEvents[j].externalEventId => i = j

\* no existence lookup of this run or of an earlier run has failed
EveryLookupSucceeded ==
    /\ prev_run.lookups_ok
    /\ \A i \in CallsWhere(IsLookup) : calls[i].ok

\* C3 as stated: after any sequence of EventSync runs the destination holds
\* at most one event per externalEventId.
C3_OneEventPerExternalId == job = "EventSync" => NoDuplicateEvent

\* C3, amended: every create call directly follows an existence lookup for
\* the same external id, and the destination holds at most one event per
\* externalEventId as long as no existence lookup has failed.
C3_OneEventPerExternalIdWhenLookupsSucceed ==
    job = "EventSync" =>
        /\ \A i \in CallsWhere(IsCreate) :
               /\ i > 1
               /\ IsLookup(calls[i - 1])
               /\ calls[i - 1].key = calls[i].key
        /\ EveryLookupSucceeded => NoDuplicateEvent

\* a live run over two source events of one external id: the first is
\* created, the second is found by its lookup and skipped
C3_Witness ==
    /\ job = "EventSync" /\ ~dry_run /\ pc = "done"
    /\ EveryLookupSucceeded
    /\ Len(events) = 2
    /\ ExternalId(events[1]) = ExternalId(events[2])
    /\ results.created = 1 /\ results.skipped_exists = 1
    /\ Len(hsEvents) = 1

\* C6: for every combination of outcomes of the external calls (success,
\* error answer, transport failure, non-JSON body, success without data)
\* DonationSync.sync, EventSync.sync and NewsletterSync.sync return a tally
\* and no exception leaves them.
C6_NeverRaises == job \in SyncJobs => pc # "raised"

\* DonationSync.sync left by an exception after the source answered a page
\* request with success and no data
C6_Witness ==
    /\ job = "DonationSync" /\ pc = "raised"
    /\ requests # << >>
    /\ requests[Len(requests)].success
    /\ ~requests[Len(requests)].has_data

\* the records the loop of the current run goes over
LoopLength ==
    CASE job = "DonationSync"   -> Len(aggregates.keys)
      [] job = "EventSync"      -> Len(events)
      [] job = "NewsletterSync" -> Len(opted_in)

Successes ==
    CASE job = "DonationSync"   -> results.updated
      [] job = "EventSync"      -> results.created
      [] job = "NewsletterSync" -> results.subscribed

\* the counters that a record's failed destination call goes to
FailureTally ==
    CASE job = "DonationSync"   -> results.errors + results.skipped_not_found
      [] job = "EventSync"      -> results.errors
      [] job = "NewsletterSync" -> results.errors + results.not_found

\* the calls whose result puts the record under a failure counter: a failed
\* search or patch or a search without a match, a failed create, a failed
\* subscribe
EndsRecordInFailure(call) ==
    CASE job = "DonationSync"   ->
             \/ ~call.ok
             \/ call.op = "search_contact_by_email" /\ call.key \notin hsContacts
      [] job = "EventSync"      -> IsCreate(call) /\ ~call.ok
      [] job = "NewsletterSync" -> call.op = "subscribe_contact" /\ ~call.ok

\* the destination holds what an applied write put there
StillApplied(call) ==
    CASE call.op = "update_contact"         -> call.key \in DOMAIN hsProps
      [] call.op = "create_marketing_event" ->
             \E i \in 1..Len(hsEvents) : hsEvents[i].externalEventId = call.key
      [] call.op = "subscribe_contact"      -> call.key \in hsSubscribed

\* C7: in a live run of any of the three syncs a failed destination call
\* for one record is tallied as a failure and the loop goes on to every
\* later record; the writes applied for earlier records stay applied, and
\* the tally holds the count of the failures together with the successes.
C7_PerRecordIsolation ==
    (job \in SyncJobs /\ ~dry_run /\ idx >= 1 /\ pc # "raised") =>
        /\ pc = "done" => idx = LoopLength + 1
        /\ pc # "done" => idx <= LoopLength
        /\ FailureTally = Cardinality(CallsWhere(EndsRecordInFailure))
        /\ Successes = Cardinality(CallsWhere(IsAppliedWrite))
        /\ \A i \in CallsWhere(IsAppliedWrite) : StillApplied(calls[i])

\* a live EventSync run over one event whose create call the destination
\* refused: the destination holds no event, the tally says created = 1 and
\* errors = 0
C7_Witness ==
    /\ job = "EventSync" /\ ~dry_run /\ pc = "done"
    /\ Len(events) = 1
    /\ results.created = 1 /\ results.errors = 0
    /\ hsEvents = << >>
    /\ \E i \in CallsWhere(IsCreate) : ~calls[i].ok /\ ~calls[i].error

\* a contact search that succeeded and matched no contact
IsSearchWithoutMatch(call) ==
    call.op = "search_contact_by_email" /\ call.ok /\ call.key \notin hsContacts

\* a contact search or a contact patch that failed
IsFailedContactCall(call) ==
    call.op \in {"search_contact_by_email", "update_contact"} /\ ~call.ok

\* C11: in a live DonationSync run skipped_not_found counts exactly the
\* profiles whose contact search succeeded with zero matches, and errors
\* counts exactly the profiles whose search call or patch call failed,
\* whatever the text of the failure.
C11_FailedLookupIsNotNotFound ==
    (job = "DonationSync" /\ ~dry_run) =>
        /\ results.skipped_not_found
               = Cardinality(CallsWhere(IsSearchWithoutMatch))
        /\ results.errors = Cardinality(CallsWhere(IsFailedContactCall))

\* a live DonationSync run over one profile whose contact the destination
\* holds: the search was refused (an answer without "error" and without
\* "results"), no patch followed and the profile is tallied as not found
C11_Witness ==
    /\ job = "DonationSync" /\ ~dry_run /\ pc = "done"
    /\ Len(aggregates.keys) = 1
    /\ Len(calls) = 1
    /\ calls[1].op = "search_contact_by_email"
    /\ ~calls[1].ok /\ ~calls[1].error
    /\ calls[1].key \in hsContacts
    /\ results.skipped_not_found = 1 /\ results.errors = 0

\* the destination calls that the step from the current state issues
NewCalls == SubSeq(calls', Len(calls) + 1, Len(calls'))

\* C13: in a live NewsletterSync run every qualifying profile gets one
\* status query, and a subscribe call for the same e-mail follows it if and
\* only if it is not the case that the query succeeded and the destination
\* holds the e-mail as SUBSCRIBED; the errors counter moves only when a
\* subscribe call returned an error, never for a failed status query.
C13_SubscribeUnlessSubscribed ==
    [][ (job = "NewsletterSync" /\ ~dry_run /\ pc = "subscribe_contacts") =>
           LET email == opted_in[idx].email
           IN  /\ Len(NewCalls) \in {1, 2}
               /\ NewCalls[1].op = "get_subscription_status"
               /\ NewCalls[1].key = email
               /\ Len(NewCalls) = 2 <=>
                      ~(NewCalls[1].ok /\ email \in hsSubscribed)
               /\ Len(NewCalls) = 2 =>
                      /\ NewCalls[2].op = "subscribe_contact"
                      /\ NewCalls[2].key = email
               /\ results'.errors # results.errors =>
                      /\ Len(NewCalls) = 2
                      /\ NewCalls[2].error ]_vars

\* a live run over one profile the destination holds as subscribed: the
\* status query failed, the subscribe call followed and succeeded, and the
\* profile is tallied as subscribed with no error
C13_Witness ==
    /\ job = "NewsletterSync" /\ ~dry_run /\ pc = "done"
    /\ Len(opted_in) = 1
    /\ Len(calls) = 2
    /\ calls[1].op = "get_subscription_status" /\ calls[1].error
    /\ calls[1].key \in hsSubscribed
    /\ calls[2].op = "subscribe_contact" /\ calls[2].ok
    /\ results.subscribed = 1 /\ results.errors = 0

IsStatusQuery(call) == call.op = "get_subscription_status"

IsSubscribe(call) == call.op = "subscribe_contact"

IsAppliedSubscribe(call) == IsSubscribe(call) /\ call.ok

IsSubscribeNotFound(call) == IsSubscribe(call) /\ ~call.ok /\ call.nf_text

IsSubscribeOtherFailure(call) ==
    IsSubscribe(call) /\ ~call.ok /\ ~call.nf_text

\* the records the loop of the current run has gone over
Tallied == IF idx = 0 THEN 0 ELSE idx - 1

\* C14: in NewsletterSync.sync every qualifying profile increments exactly
\* one counter: already_subscribed when the write is skipped, subscribed
\* when the subscribe call succeeds (or in a dry run), not_found when the
\* subscribe call fails with 'not found' in its text, errors for every
\* other subscribe failure; so the four counters sum to the number of
\* profiles gone over, at the end to the number of qualifying profiles.
C14_ExactlyOneCounter ==
    (job = "NewsletterSync" /\ pc # "raised") =>
        /\ results.subscribed + results.already_subscribed
               + results.not_found + results.errors = Tallied
        /\ pc = "done" => Tallied = Len(opted_in)
        /\ dry_run => results.subscribed = Tallied
        /\ ~dry_run =>
               /\ results.already_subscribed
                      = Cardinality(CallsWhere(IsStatusQuery))
                          - Cardinality(CallsWhere(IsSubscribe))
               /\ results.subscribed
                      = Cardinality(CallsWhere(IsAppliedSubscribe))
               /\ results.not_found
                      = Cardinality(CallsWhere(IsSubscribeNotFound))
               /\ results.errors
                      = Cardinality(CallsWhere(IsSubscribeOtherFailure))

\* a live run over one qualifying profile whose subscribe call the
\* destination refused with an answer that has no "error" key: the e-mail is
\* not subscribed, the tally says subscribed = 1
C14_Witness ==
    /\ job = "NewsletterSync" /\ ~dry_run /\ pc = "done"
    /\ Len(opted_in) = 1
    /\ \E i \in CallsWhere(IsSubscribe) :
           /\ ~calls[i].ok /\ ~calls[i].error
           /\ calls[i].key \notin hsSubscribed
    /\ results.subscribed = 1
    /\ results.not_found = 0 /\ results.errors = 0

\* the positions of the events gone over that the run does not skip as
\* archived and whose date is non-empty and earlier than today
PastPositions ==
    { i \in 1..Min(Tallied, Len(events)) :
        /\ ~(skip_archived /\ events[i].archived)
        /\ DateAsString(events[i].event_date) # EmptyDate
        /\ events[i].event_date < today }

\* the positions of the events gone over that the run skips as archived
ArchivedPositions ==
    { i \in 1..Min(Tallied, Len(events)) :
        skip_archived /\ events[i].archived }

\* C15: with future_only on, skipped_past counts exactly the events gone
\* over that are not skipped as archived and whose event_date is non-empty
\* and earlier than today (so an event with a missing date or a date of
\* today or later is never counted); no existence lookup and no create call
\* is issued for such an event: lookups are issued only for the events that
\* are neither skipped as archived nor past.
C15_PastEventsSkipped ==
    (job = "EventSync" /\ future_only /\ pc # "raised") =>
        /\ results.skipped_past = Cardinality(PastPositions)
        /\ Cardinality(CallsWhere(IsLookup))
               = Tallied - Cardinality(ArchivedPositions)
                         - Cardinality(PastPositions)
        /\ \A i \in PastPositions :
               \A c \in 1..Len(calls) : calls[c].key # ExternalId(events[i])

\* a live run over an event dated before today and an event dated today:
\* the first is skipped as past without a call, the second is created
C15_Witness ==
    /\ job = "EventSync" /\ future_only /\ ~dry_run /\ pc = "done"
    /\ Len(events) = 2
    /\ events[1].event_date = 1 /\ events[2].event_date = today
    /\ results.skipped_past = 1 /\ results.created = 1
    /\ Len(calls) = 2
    /\ calls[2].op = "create_marketing_event" /\ calls[2].ok

\* a create call that came back with an "error" result
IsCreateError(call) == IsCreate(call) /\ call.error

FiveCounters ==
    results.created + results.skipped_exists + results.skipped_archived
        + results.skipped_past + results.errors

\* the request for the events was answered with a failure
EventFetchFailed == requests # << >> /\ ~requests[1].success

\* C16 as stated: in EventSync.sync the five counters sum to the number of
\* events gone over, and errors counts the failed create calls only.
C16_OneCounterPerEvent ==
    (job = "EventSync" /\ pc # "raised") =>
        /\ FiveCounters = Tallied
        /\ results.errors = Cardinality(CallsWhere(IsCreateError))

\* C16, amended: every event gone over increments exactly one of the five
\* counters, errors among them only when its create call returned an
\* error; a run whose event fetch fails goes over no event and reports
\* errors = 1; in every other run the five counters sum to the number of
\* events gone over, at the end to the number of events fetched.
C16_OneCounterPerEventOrFetchError ==
    (job = "EventSync" /\ pc # "raised") =>
        /\ EventFetchFailed =>
               /\ Tallied = 0 /\ events = << >>
               /\ FiveCounters = 1 /\ results.errors = 1
        /\ ~EventFetchFailed =>
               /\ FiveCounters = Tallied
               /\ results.errors = Cardinality(CallsWhere(IsCreateError))
               /\ pc = "done" => Tallied = Len(events)

\* a live run over two events: the create call of one returned an error,
\* the other event was created
C16_Witness ==
    /\ job = "EventSync" /\ ~dry_run /\ pc = "done"
    /\ ~EventFetchFailed
    /\ Len(events) = 2
    /\ results.errors = 1 /\ results.created = 1
    /\ Cardinality(CallsWhere(IsCreateError)) = 1

\* the destination as the current run found it: the e-mails subscribed and
\* the external ids of the events before the writes of this run
InitiallySubscribed ==
    hsSubscribed \ { calls[i].key : i \in CallsWhere(IsAppliedSubscribe) }

InitialEventIds ==
    { hsEvents[i].externalEventId :
        i \in 1..(Len(hsEvents) - Cardinality(CallsWhere(IsAppliedWrite))) }

\* the aggregated profiles that have an e-mail
DonorsWithEmail ==
    { i \in 1..Len(aggregates.keys) :
        aggregates.keys[i] \in DOMAIN profile_emails }

\* the eligible source events that the destination did not hold
NewEligible ==
    { i \in Eligible : ExternalId(csEvents[i]) \notin InitialEventIds }

\* what a live run in which no call fails reports as updated / created /
\* subscribed: the donors whose contact the destination holds, the external
\* ids the destination did not hold, the e-mails not subscribed before
LiveSuccesses ==
    CASE job = "DonationSync"   ->
             Cardinality({ i \in DonorsWithEmail :
                             profile_emails[aggregates.keys[i]] \in hsContacts })
      [] job = "EventSync"      ->
             Cardinality({ ExternalId(csEvents[i]) : i \in NewEligible })
      [] job = "NewsletterSync" ->
             Cardinality({ opted_in[j].email : j \in 1..Len(opted_in) }
                             \ InitiallySubscribed)

\* what a dry run counts: every donor with an e-mail, every eligible event
\* the destination does not hold, every qualifying profile
DrySuccesses ==
    CASE job = "DonationSync"   -> Cardinality(DonorsWithEmail)
      [] job = "EventSync"      -> Cardinality(NewEligible)
      [] job = "NewsletterSync" -> Len(opted_in)

\* the destination turns no record of the run away: every donor's contact is
\* there, no two new events share an external id, no qualifying profile is
\* subscribed already and no two share an e-mail
DestinationTakesEveryRecord ==
    CASE job = "DonationSync"   ->
             \A i \in DonorsWithEmail :
                 profile_emails[aggregates.keys[i]] \in hsContacts
      [] job = "EventSync"      ->
             \A i, j \in NewEligible :
                 ExternalId(csEvents[i]) = ExternalId(csEvents[j]) => i = j
      [] job = "NewsletterSync" ->
             /\ \A j \in 1..Len(opted_in) :
                    opted_in[j].email \notin InitiallySubscribed
             /\ \A j, k \in 1..Len(opted_in) :
                    opted_in[j].email = opted_in[k].email => j = k

\* a run of a sync has returned and every call it made succeeded
FinishedWithoutFailure ==
    job \in SyncJobs /\ pc = "done" /\ EveryCallSucceeded

C18_AllEventsIterated ==
    (job = "EventSync" /\ pc = "done" /\ EveryCallSucceeded) =>
        /\ events = csEvents
        /\ Tallied = Len(csEvents)
        /\ FiveCounters = Len(csEvents)

\* a run over a source of 101 events in which every call succeeded: one
\* request was sent, 100 events were gone over and tallied, and the 101st,
\* which is not archived and lies in the future, was not
C18_Witness ==
    /\ job = "EventSync" /\ pc = "done" /\ EveryCallSucceeded
    /\ Len(csEvents) = 101
    /\ ~csEvents[101].archived /\ csEvents[101].event_date > today
    /\ Len(requests) = 1
    /\ Len(events) = 100
    /\ Tallied = 100 /\ FiveCounters = 100
    /\ \A c \in 1..Len(calls) : calls[c].key # ExternalId(csEvents[101])

MissingCredentials == ~credentials.csuite \/ ~credentials.hubspot

\* C19: a run of any of the three syncs with the credentials of the source
\* or of the destination missing goes over no record and returns a result
\* with errors = 1 and one detail message.
C19_MissingCredentialsShortCircuit ==
    (job \in SyncJobs /\ MissingCredentials) =>
        /\ pc \in {FirstStep(job), "done"}
        /\ Tallied = 0
        /\ calls = << >>
        /\ pc = "done" =>
               /\ results.errors = 1
               /\ Len(results.details) = 1

\* a live DonationSync run without the access token of the destination: the
\* source was read, two profiles were gone over, each ended in an error of
\* its own and the result has no detail message
C19_Witness ==
    /\ job = "DonationSync" /\ ~dry_run /\ pc = "done"
    /\ credentials.csuite /\ ~credentials.hubspot
    /\ Len(requests) >= 2
    /\ Tallied = 2
    /\ Len(calls) = 2
    /\ results.errors = 2
    /\ results.details = << >>

\* the page requests of the current run that were answered with a failure
FailedPages == { i \in 1..Len(requests) : ~requests[i].success }

\* C20: in a live DonationSync or NewsletterSync run in which a page fetch
\* has reported failure no destination write call is issued (every page
\* fetch of a run comes before its first destination call).
C20_FailedPageAbortsSync ==
    (job \in {"DonationSync", "NewsletterSync"} /\ ~dry_run
        /\ FailedPages # {})
    => CallsWhere(IsWrite) = {}

\* a live DonationSync run over 101 profiles and 101 donations: the first
\* profile page came, the second failed, and the run went on to patch the
\* contact of profile 1 and to report profile 101, whose profile was on the
\* failed page, as a donor without e-mail
C20_Witness ==
    /\ job = "DonationSync" /\ ~dry_run /\ pc = "done"
    /\ Len(csProfiles) = 101
    /\ csProfiles[101].primary_email # << >>
    /\ FailedPages = {2}
    /\ requests[2].endpoint = "profile/list"
    /\ requests[2].view_offset = 100
    /\ \E c \in CallsWhere(IsAppliedWrite) :
           calls[c].key = << 1, FALSE, FALSE >>
    /\ results.updated = 1
    /\ DictHas(aggregates, 101)
    /\ 101 \notin DOMAIN profile_emails
    /\ results.skipped_no_email = Len(aggregates.keys) - 1

---------------------------------------------------------------------------
(* Claims about the totals DonationSync patches (SpecSyncPages) *)

\* the positions of the source's donations that carry profile_id p
SourceDonationsOf(p) ==
    { i \in 1..Len(csDonations) : csDonations[i].profile_id = p }

\* the sum of the source's amounts at the positions in S, an unparseable
\* amount as 0
RECURSIVE SumOfSourceAmounts(_)
SumOfSourceAmounts(S) ==
    IF S = {} THEN 0
    ELSE LET i == CHOOSE j \in S : TRUE
         IN  ParseAmount(csDonations[i].donation_amount)
             + SumOfSourceAmounts(S \ {i})

\* C21: in a live DonationSync run the lifetime_giving and donation_count a
\* contact was patched with are the sum (to the cent) and the number of all
\* donations the source holds for the profile the contact was matched with.
C21_PatchedTotalsAreSourceTotals ==
    (job = "DonationSync" /\ ~dry_run) =>
        \A email \in DOMAIN hsProps :
            LET patched == hsProps[email]
                held    == SourceDonationsOf(patched.csuite_profile_id)
            IN  /\ patched.lifetime_giving = Round2(SumOfSourceAmounts(held))
                /\ patched.donation_count = Cardinality(held)

\* a live DonationSync run over 101 donations, two of them those of profile
\* 1: the first donation page came, the second failed, and the contact of
\* profile 1 was patched with the one donation of the first page
C21_Witness ==
    /\ job = "DonationSync" /\ ~dry_run /\ ~quick /\ pc = "done"
    /\ Len(csDonations) = 101
    /\ SourceDonationsOf(1) = {1, 101}
    /\ Len(all_donations) = 100
    /\ FailedPages # {}
    /\ requests[Len(requests)].endpoint = "donation/list"
    /\ requests[Len(requests)].view_offset = 100
    /\ ~requests[Len(requests)].success
    /\ << 1, FALSE, FALSE >> \in DOMAIN hsProps
    /\ hsProps[<< 1, FALSE, FALSE >>].donation_count = 1
    /\ hsProps[<< 1, FALSE, FALSE >>].lifetime_giving = 1000


---------------------------------------------------------------------------
(* Claims about the chat commands (SpecChat) *)

\* C22: when the NewsletterSync.sync run of a 'sync newsletter' command has
\* returned a tally, the handler replies with the formatted tally, not with
\* the 'Newsletter sync failed' message.
C22_NewsletterTallyIsFormatted ==
    [][(job = "NewsletterSync" /\ pc = "done" /\ pc' # pc) => pc' = "replied"]_vars

\* a live 'sync newsletter' command: every page came with data, the run
\* subscribed a contact and returned its tally, and the reply is the
\* 'sync failed' message
C22_Witness ==
    /\ job = "NewsletterSync" /\ ~dry_run /\ pc = "sync_failed"
    /\ \A i \in 1..Len(requests) : requests[i].success /\ requests[i].has_data
    /\ results.subscribed = 1
    /\ CallsWhere(IsAppliedSubscribe) # {}
    /\ hsSubscribed # {}


---------------------------------------------------------------------------
(* Claims about concurrent runs (SpecConcurrent) *)

\* the create calls issued for external_id, by either call
CreateCallsFor(external_id) ==
    { i \in 1..Len(calls) :
        IsCreate(calls[i]) /\ calls[i].key = external_id }

\* C23: when two live EventSync.sync runs go side by side over the same
\* source and destination, no externalEventId gets more than one create
\* call in total.
C23_OneCreatePerExternalId ==
    syncs # << >> =>
        \A i \in 1..Len(calls) : Cardinality(CreateCallsFor(calls[i].key)) <= 1

\* two live runs over a source of one event, every request and call of both
\* answered with success: both looked the event up before either created
\* it, both created it and the destination holds it twice
C23_Witness ==
    /\ syncs # << >>
    /\ \A s \in SyncIds : syncs[s].pc = "done" /\ syncs[s].results.created = 1
    /\ Len(csEvents) = 1
    /\ \A i \in 1..Len(requests) : requests[i].success /\ requests[i].has_data
    /\ Len(calls) = 4
    /\ \A i \in 1..4 : calls[i].ok
    /\ IsLookup(calls[1]) /\ IsLookup(calls[2])
    /\ IsCreate(calls[3]) /\ IsCreate(calls[4])
    /\ calls[3].key = calls[4].key
    /\ Len(hsEvents) = 2
    /\ hsEvents[1].externalEventId = hsEvents[2].externalEventId


---------------------------------------------------------------------------
(* Claims about build_hubspot_event (Spec) *)

\* an id that is present and not empty (0 is None / the empty string)
IsGiven(id) == id # MissingKey /\ id # 0

\* "csuite-" + (event_date_id or event_id or 'unknown')
ExternalIdByTruth(csuite_event) ==
    IF IsGiven(csuite_event.event_date_id)
    THEN << "csuite", csuite_event.event_date_id >>
    ELSE IF IsGiven(csuite_event.event_id)
    THEN << "csuite", csuite_event.event_id >>
    ELSE << "csuite", UnknownId >>

\* what tells two source events apart
EventIdentity(csuite_event) ==
    << csuite_event.event_date_id, csuite_event.event_id >>

\* C25: the externalEventId an event is looked up with is "csuite-" and its
\* event_date_id if that is present and not empty, else its event_id if
\* that is present and not empty, else 'unknown'; and no fetched event of
\* another identity maps to the same externalEventId.
C25_ExternalIdOfEvent ==
    [][(job = "EventSync" /\ pc = "process_events" /\ calls' # calls) =>
          LET external_id == calls'[Len(calls) + 1].key
          IN  /\ external_id = ExternalIdByTruth(events[idx])
              /\ \A j \in 1..Len(events) :
                     EventIdentity(events[j]) # EventIdentity(events[idx])
                         => build_hubspot_event(events[j]).externalEventId
                                # external_id]_vars

\* an EventSync run has looked up an event whose event_date_id is None and
\* whose event_id is 7 under the external id made of None
C25_Witness ==
    /\ job = "EventSync" /\ idx >= 2
    /\ events[idx - 1].event_date_id = 0
    /\ events[idx - 1].event_id = 7
    /\ calls # << >>
    /\ \E i \in CallsWhere(IsLookup) :
           /\ calls[i].key = << "csuite", 0 >>
           /\ \A j \in CallsWhere(IsLookup) : j <= i


---------------------------------------------------------------------------
(* Claims about the tally of DonationSync (Spec) *)

FourCounters(res) ==
    res.updated + res.skipped_no_email + res.skipped_not_found + res.errors

\* the profile_ids the fetched donations carry
FetchedProfileIds ==
    { all_donations[i].profile_id : i \in 1..Len(all_donations) } \ {0}

\* C26: every iteration of the update loop of DonationSync.sync adds one to
\* exactly one of updated, skipped_no_email, skipped_not_found, errors and
\* takes nothing off any of them; when a run that reached the loop is done,
\* the four add up to the number of distinct profile_ids of the fetched
\* donations.
C26_OneCounterPerProfile ==
    /\ [][(job = "DonationSync" /\ pc = "update_contacts") =>
             /\ FourCounters(results') = FourCounters(results) + 1
             /\ results'.updated >= results.updated
             /\ results'.skipped_no_email >= results.skipped_no_email
             /\ results'.skipped_not_found >= results.skipped_not_found
             /\ results'.errors >= results.errors]_vars
    /\ []((job = "DonationSync" /\ pc = "done" /\ aggregates.keys # << >>) =>
             FourCounters(results) = Cardinality(FetchedProfileIds))

\* a live run over two donations of two profiles: the contact of one was
\* patched, that of the other was not found
C26_Witness ==
    /\ job = "DonationSync" /\ ~dry_run /\ pc = "done"
    /\ Len(all_donations) = 2
    /\ Cardinality(FetchedProfileIds) = 2
    /\ results.updated = 1
    /\ results.skipped_not_found = 1
    /\ results.skipped_no_email = 0 /\ results.errors = 0


---------------------------------------------------------------------------
(* Claims about the donors DonationSync passes over (SpecSyncPages) *)

\* the source holds a profile with profile_id p and a non-empty e-mail
SourceHoldsEmailOf(p) ==
    \E i \in 1..Len(csProfiles) :
        /\ csProfiles[i].profile_id = p
        /\ csProfiles[i].primary_email # << >>

\* C27: DonationSync.sync counts a profile as skipped_no_email only if the
\* source holds no profile with that profile_id and a non-empty e-mail.
C27_SkippedNoEmailHasNoEmail ==
    [][(job = "DonationSync" /\ pc = "update_contacts"
           /\ results'.skipped_no_email > results.skipped_no_email)
       => ~SourceHoldsEmailOf(aggregates.keys[idx])]_vars

\* a DonationSync run over 101 profiles whose second profile page failed:
\* the loop has just counted profile 101, the second donor, as
\* skipped_no_email, and the source holds the e-mail of profile 101
C27_Witness ==
    /\ job = "DonationSync" /\ pc = "update_contacts"
    /\ idx = 3
    /\ aggregates.keys[2] = 101
    /\ SourceHoldsEmailOf(101)
    /\ 101 \notin DOMAIN profile_emails
    /\ \E i \in FailedPages : requests[i].endpoint = "profile/list"
    /\ results.skipped_no_email = 1


---------------------------------------------------------------------------
(* Claims about what NewsletterSync leaves alone (Spec) *)

\* the e-mails, as the sync writes them, of the source profiles that have
\* an e-mail and the newsletter flag 1
OptedInEmails ==
    { NormalizeEmail(csProfiles[i].primary_email) :
        i \in { j \in 1..Len(csProfiles) :
                  /\ csProfiles[j].primary_email # << >>
                  /\ csProfiles[j].newsletter = 1 } }

\* the e-mails, as the sync would write them, of the source profiles whose
\* newsletter flag is not 1
NotOptedInEmails ==
    { NormalizeEmail(csProfiles[i].primary_email) :
        i \in { j \in 1..Len(csProfiles) :
                  /\ csProfiles[j].primary_email # << >>
                  /\ csProfiles[j].newsletter # 1 } }

\* C28 as stated: a NewsletterSync.sync run issues no unsubscribe call and
\* no call at all for a profile whose newsletter flag is not 1, and leaves
\* the subscription of the contact of such a profile as it was.
C28_NotOptedInAreUntouched ==
    /\ [](job = "NewsletterSync" =>
             \A i \in 1..Len(calls) :
                 /\ calls[i].op \in {"get_subscription_status",
                                     "subscribe_contact"}
                 /\ calls[i].key \notin NotOptedInEmails)
    /\ [][job = "NewsletterSync" =>
             \A email \in NotOptedInEmails :
                 (email \in hsSubscribed') = (email \in hsSubscribed)]_vars

\* C28, by e-mail: a NewsletterSync.sync run issues status queries and
\* subscribe calls only, and only for the e-mails of profiles that have an
\* e-mail and the newsletter flag 1; no step takes a subscription away, and
\* none changes the subscription of a contact with another e-mail (a profile
\* whose flag is not 1 and that shares its e-mail with a profile whose flag
\* is 1 has its contact subscribed).
C28_OnlyOptedInAreTouched ==
    /\ [](job = "NewsletterSync" =>
             \A i \in 1..Len(calls) :
                 /\ calls[i].op \in {"get_subscription_status",
                                     "subscribe_contact"}
                 /\ calls[i].key \in OptedInEmails)
    /\ [][job = "NewsletterSync" =>
             /\ hsSubscribed \subseteq hsSubscribed'
             /\ hsSubscribed' \ hsSubscribed \subseteq OptedInEmails]_vars

\* a live run over a profile with newsletter = 0 and a profile with
\* newsletter = 1: the one contact was subscribed, no call was issued for
\* the other
C28_Witness ==
    /\ job = "NewsletterSync" /\ ~dry_run /\ pc = "done"
    /\ Len(csProfiles) = 2
    /\ csProfiles[1].newsletter = 0 /\ csProfiles[1].primary_email = Email2
    /\ csProfiles[2].newsletter = 1 /\ csProfiles[2].primary_email # << >>
    /\ OptedInEmails = {Email1}
    /\ CallsWhere(IsAppliedSubscribe) # {}
    /\ \A i \in 1..Len(calls) : calls[i].key = Email1
    /\ Email1 \in hsSubscribed /\ Email2 \notin hsSubscribed

============================================================================
